---------------------------- MODULE Spec2Model ----------------------------
(***************************************************************************)
(* A model of the Google Gemini provider of the LLM gateway                *)
(* (Back/app/services/llm/providers/google.py): the translation of a       *)
(* ChatRequest into the Gemini payload, the unary call, the streaming call *)
(* and the model listing, run against a mocked vendor, with the cost       *)
(* estimate and the connection test.                                       *)
(*                                                                         *)
(* Conventions.  A Python str is a sequence of characters, so len is Len   *)
(* and + is \o.  A Python dict is a function over string keys.  An         *)
(* Optional value is None (the empty sequence) or Some(v) (a one-element   *)
(* sequence).  Temperatures are counted in tenths, so that 0.7 is 7.       *)
(***************************************************************************)
EXTENDS Integers, Sequences, FiniteSets, TLC

VARIABLES
    config,     \* the provider configuration (self.config), read by every call
    request,    \* the ChatRequest handed to the calls
    vendor,     \* the mocked vendor: status, unary body, stream lines, listing
    send,       \* the send_chat_request call
    stream,     \* the stream_chat_request call (an async generator)
    models,     \* the get_available_models call
    estimate,   \* the estimate_cost call
    probe       \* the test_connection call

vars == <<config, request, vendor, send, stream, models, estimate, probe>>

-----------------------------------------------------------------------------
(* Bounds of the model *)

\* The longest message list of a request.
MaxMessages == 3

\* The longest mocked streaming body, in lines.
MaxLines == 3

\* The longest streaming body of the unary/streaming comparison, in lines.
MaxEquivLines == 2

\* The largest wall-clock time a call measures, in milliseconds.
MaxElapsed == 1

-----------------------------------------------------------------------------
(* Python values *)

None == <<>>

Some(v) == <<v>>

EmptyDict == [k \in {} |-> TRUE]

\* dict.get(key, default)
Get(d, key, default) == IF key \in DOMAIN d THEN d[key] ELSE default

\* Python truthiness of a str, a list or a dict: it is not empty.
Truthy(x) == DOMAIN x # {}

\* Python truthiness of an Optional[str]: neither None nor "".
TruthyOpt(o) == o # None /\ o[1] # ""

\* The concatenation of the strings of a list, in order.
RECURSIVE Concat(_)
Concat(ss) == IF ss = <<>> THEN <<>> ELSE Head(ss) \o Concat(Tail(ss))

\* All the lists over S of at most n elements.
SeqsUpTo(S, n) == UNION {[1..k -> S] : k \in 0..n}

\* A decoded JSON value whose type the code does not check before using it.
JObject(d) == [type |-> "object", v |-> d]

\* A JSON array of n elements (only its length matters to the code).
JArray(n) == [type |-> "array", v |-> [length |-> n]]

\* Python truthiness of a decoded JSON object or array: it is not empty.
JTruthy(j) == IF j.type = "object" THEN Truthy(j.v) ELSE j.v.length > 0


-----------------------------------------------------------------------------
(* The shared exceptions and the results of a call *)

provider_name == "Google"

\* LLMProviderError(message, provider=None, status_code=None, error_details=None)
\* and its two subclasses, which the provider raises with a message only.
LLMError(kind, message, provider, status_code, error_details) ==
    [kind          |-> kind,
     message       |-> message,
     provider      |-> provider,
     status_code   |-> status_code,
     error_details |-> error_details]

NoResult == [type |-> "none"]

Return(value) == [type |-> "return", value |-> value]

Raise(error) == [type |-> "raise", error |-> error]

-----------------------------------------------------------------------------
(* _validate_configuration *)

\* NoResult when the configuration passes, the raised error otherwise.
ValidateConfiguration(cfg) ==
    IF ~TruthyOpt(cfg.api_key_encrypted)
    THEN Raise(LLMError("LLMProviderError", "API key is not configured",
                        None, None, EmptyDict))
    ELSE IF ~TruthyOpt(cfg.api_endpoint)
    THEN Raise(LLMError("LLMProviderError", "API endpoint is not configured",
                        None, None, EmptyDict))
    ELSE NoResult

-----------------------------------------------------------------------------
(* The translation of a ChatRequest into the Gemini payload *)

ModelForDefaultOnly(req, cfg) == cfg.default_model

ModelForCachedOnProvider(req, cfg) ==
    IF probe.model # "" THEN probe.model
    ELSE IF send.model # "" THEN send.model
    ELSE IF stream.model # "" THEN stream.model
    ELSE IF TruthyOpt(req.model) THEN req.model[1] ELSE cfg.default_model

\* model = request.model or self.config.default_model
ModelFor(req, cfg) ==
    IF TruthyOpt(req.model) THEN req.model[1] ELSE cfg.default_model

GeminiRoleKeepingSystem(role) ==
    IF role = "assistant" THEN "model" ELSE role

\* role = "model" if msg.role == "assistant" else "user"
GeminiRole(role) ==
    IF role = "assistant" THEN "model" ELSE "user"

\* contents: one entry per message, appended in the order of the messages.
Contents(messages) ==
    [i \in 1..Len(messages) |->
        [parts |-> <<[text |-> messages[i].content]>>,
         role  |-> GeminiRole(messages[i].role)]]

GenerationValueByTruthiness(requested, model_parameters, key) ==
    IF requested # None /\ requested[1] # 0
    THEN requested
    ELSE IF model_parameters # None /\ Truthy(model_parameters[1])
            /\ key \in DOMAIN model_parameters[1]
    THEN Some(model_parameters[1][key])
    ELSE None

\* The value of one generation parameter: the request's when it is not None,
\* else the configuration's model_parameters[key] when that key is there,
\* else nothing (None stands for "no key is set").
GenerationValue(requested, model_parameters, key) ==
    IF requested # None
    THEN requested
    ELSE IF model_parameters # None /\ Truthy(model_parameters[1])
            /\ key \in DOMAIN model_parameters[1]
    THEN Some(model_parameters[1][key])
    ELSE None

\* generation_config
GenerationConfig(req, cfg) ==
    LET temperature == GenerationValue(req.temperature, cfg.model_parameters,
                                       "temperature")
        max_tokens  == GenerationValue(req.max_tokens, cfg.model_parameters,
                                       "max_tokens")
        keys == (IF temperature # None THEN {"temperature"} ELSE {})
                \cup (IF max_tokens # None THEN {"maxOutputTokens"} ELSE {})
    IN  [k \in keys |-> IF k = "temperature" THEN temperature[1]
                                             ELSE max_tokens[1]]

\* dict.update: d with every key of e set to e's value.
Update(d, e) ==
    [k \in DOMAIN d \cup DOMAIN e |-> IF k \in DOMAIN e THEN e[k] ELSE d[k]]

\* The payload before request.extra_params is merged into it.
DerivedPayload(req, cfg) ==
    LET generation_config == GenerationConfig(req, cfg)
    IN  IF Truthy(generation_config)
        THEN [contents |-> Contents(req.messages),
              generationConfig |-> generation_config]
        ELSE [contents |-> Contents(req.messages)]

MergeKeepingDerived(payload, extra_params) ==
    [k \in DOMAIN payload \cup DOMAIN extra_params |->
        IF k \in DOMAIN payload THEN payload[k] ELSE extra_params[k]]

\* payload.update(request.extra_params)
MergeExtraParams(payload, extra_params) == Update(payload, extra_params)

\* The payload send_chat_request posts.
SendPayload(req, cfg) == MergeExtraParams(DerivedPayload(req, cfg), req.extra_params)

\* stream_chat_request repeats the construction in its own body.
\* model = request.model or self.config.default_model
StreamModelFor(req, cfg) ==
    IF TruthyOpt(req.model) THEN req.model[1] ELSE cfg.default_model

\* contents of stream_chat_request: one entry per message, in order.
StreamContents(messages) ==
    [i \in 1..Len(messages) |->
        [parts |-> <<[text |-> messages[i].content]>>,
         role  |-> IF messages[i].role = "assistant" THEN "model" ELSE "user"]]

\* self.config.model_parameters and key in self.config.model_parameters
StreamConfigHas(cfg, key) ==
    /\ cfg.model_parameters # None
    /\ Truthy(cfg.model_parameters[1])
    /\ key \in DOMAIN cfg.model_parameters[1]

StreamGenerationConfigOfRequestOnly(req, cfg) ==
    LET with_temperature ==
            IF req.temperature # None
            THEN [temperature |-> req.temperature[1]]
            ELSE EmptyDict
    IN  IF req.max_tokens # None
        THEN Update(with_temperature, [maxOutputTokens |-> req.max_tokens[1]])
        ELSE with_temperature

\* generation_config of stream_chat_request: the two if/elif statements.
StreamGenerationConfig(req, cfg) ==
    LET with_temperature ==
            IF req.temperature # None
            THEN [temperature |-> req.temperature[1]]
            ELSE IF StreamConfigHas(cfg, "temperature")
            THEN [temperature |-> cfg.model_parameters[1]["temperature"]]
            ELSE EmptyDict
    IN  IF req.max_tokens # None
        THEN Update(with_temperature, [maxOutputTokens |-> req.max_tokens[1]])
        ELSE IF StreamConfigHas(cfg, "max_tokens")
        THEN Update(with_temperature,
                    [maxOutputTokens |-> cfg.model_parameters[1]["max_tokens"]])
        ELSE with_temperature

\* The payload stream_chat_request posts: contents, generationConfig when
\* it is not empty, then payload.update(request.extra_params).
StreamPayload(req, cfg) ==
    LET generation_config == StreamGenerationConfig(req, cfg)
        payload == IF Truthy(generation_config)
                   THEN [contents |-> StreamContents(req.messages),
                         generationConfig |-> generation_config]
                   ELSE [contents |-> StreamContents(req.messages)]
    IN  Update(payload, req.extra_params)

RequestAfterPayloadMergedInto(req, cfg) ==
    [req EXCEPT !.extra_params = MergeExtraParams(req.extra_params,
                                                  DerivedPayload(req, cfg))]

\* The ChatRequest once the payload has been built from it: the code reads
\* request.messages, .model, .temperature, .max_tokens and .extra_params and
\* assigns to none of them; contents and generation_config are new objects,
\* and payload.update copies the entries of extra_params into the payload.
RequestAfterPayload(req, cfg) == req

-----------------------------------------------------------------------------
(* Decoding the vendor's responses *)

\* A Python or httpx exception that is none of the shared kinds.
PyError(kind) == LLMError(kind, [form |-> "python"], None, None, EmptyDict)

FirstCandidateTextOfLastPart(data) ==
    LET candidates == Get(data, "candidates", <<>>)
    IN  IF Len(candidates) > 0 /\ Truthy(Get(candidates[1], "content", EmptyDict))
        THEN LET parts == Get(candidates[1]["content"], "parts", <<>>)
             IN  IF Len(parts) > 0 THEN Get(parts[Len(parts)], "text", <<>>) ELSE <<>>
        ELSE <<>>

\* The text of the first part of the first candidate of a decoded body, the
\* empty string when there is no candidate, no content, no part or no text.
FirstCandidateText(data) ==
    LET candidates == Get(data, "candidates", <<>>)
    IN  IF Len(candidates) > 0 /\ Truthy(Get(candidates[1], "content", EmptyDict))
        THEN LET parts == Get(candidates[1]["content"], "parts", <<>>)
             IN  IF Len(parts) > 0 THEN Get(parts[1], "text", <<>>) ELSE <<>>
        ELSE <<>>

\* The usage of vendor-reported usage metadata.
ReportedUsage(usage_metadata) ==
    [input_tokens  |-> Get(usage_metadata, "promptTokenCount", 0),
     output_tokens |-> Get(usage_metadata, "candidatesTokenCount", 0),
     total_tokens  |-> Get(usage_metadata, "totalTokenCount", 0)]

\* BaseLLMProvider._calculate_actual_cost: None without cost tracking, else the
\* usage priced per token (in millionths of a dollar).
CalculateActualCost(usage, cfg) ==
    IF ~cfg.has_cost_tracking
    THEN None
    ELSE Some(Get(usage, "input_tokens", 0) * cfg.input_price
              + Get(usage, "output_tokens", 0) * cfg.output_price)

\* _process_success_response: the outcome of decoding a 200 response.
ProcessSuccessResponse(data, response_time_ms, model, cfg) ==
    LET content == FirstCandidateText(data)
        usage_metadata == Get(data, "usageMetadata", JObject(EmptyDict))
    IN  IF JTruthy(usage_metadata) /\ usage_metadata.type # "object"
        THEN Raise(PyError("AttributeError"))
        ELSE LET usage == IF JTruthy(usage_metadata)
                          THEN ReportedUsage(usage_metadata.v)
                          ELSE EmptyDict
             IN  Return([content          |-> content,
                         model            |-> model,
                         provider         |-> provider_name,
                         usage            |-> usage,
                         cost             |-> CalculateActualCost(usage, cfg),
                         response_time_ms |-> response_time_ms,
                         raw_response     |-> data])

\* The exception class _handle_error_response raises for a status code.
ErrorKindIgnoringQuota(status_code) ==
    IF status_code = 401 \/ status_code = 403 THEN "LLMConfigurationError"
    ELSE "LLMProviderError"

ErrorKind(status_code) ==
    IF status_code = 401 \/ status_code = 403 THEN "LLMConfigurationError"
    ELSE IF status_code = 429 THEN "LLMQuotaExceededError"
    ELSE "LLMProviderError"

\* _handle_error_response: the exception it raises (it never returns).  The
\* body of a response opened with client.stream() has not been read, and
\* response.json() and response.text both raise httpx.ResponseNotRead then:
\* the first is caught by the bare except, the second leaves the handler.
HandleErrorResponse(response) ==
    IF ~response.read
    THEN PyError("httpx.ResponseNotRead")
    ELSE
    LET decoded == response.body \in {"error_object", "empty_object"}
        error_message ==
            IF response.body = "error_object" THEN [form |-> "vendor"]
            ELSE IF response.body = "empty_object" THEN [form |-> "unknown"]
            ELSE [form |-> "http", status |-> response.status_code]
        error_code == IF response.body = "error_object" THEN "vendor code"
                      ELSE IF decoded THEN "unknown" ELSE "http_error"
        error_status == IF response.body = "error_object" THEN "vendor status"
                        ELSE "unknown"
        kind == ErrorKind(response.status_code)
    IN  IF kind # "LLMProviderError"
        THEN LLMError(kind, error_message, None, None, EmptyDict)
        ELSE IF response.status_code = 400
        THEN LLMError(kind, error_message, Some(provider_name),
                      Some(response.status_code), EmptyDict)
        ELSE LLMError(kind, error_message, Some(provider_name),
                      Some(response.status_code),
                      [error_code |-> error_code, error_status |-> error_status])

HandleErrorOutcomeReturningUnmapped(response) ==
    IF response.status_code \in {400, 401, 403, 429}
    THEN Raise(HandleErrorResponse(response))
    ELSE Return(None)

\* How "await self._handle_error_response(response)" ends: the handler's
\* last statement is an if/elif/else whose every branch raises.  Were it to
\* return, its caller would go on past the await and return None.
HandleErrorOutcome(response) == Raise(HandleErrorResponse(response))

\* What send_chat_request does with the response of client.post.
SendOutcome(response, data, response_time_ms, model, cfg) ==
    IF response.status_code = 200
    THEN ProcessSuccessResponse(data, response_time_ms, model, cfg)
    ELSE HandleErrorOutcome(response)

\* except httpx.TimeoutException / except httpx.RequestError, as the three
\* calls write them; streaming is the extra flag of stream_chat_request.
TransportErrorAsNetwork(fault, extra) ==
    LLMError("LLMProviderError", [form |-> "transport"], Some(provider_name), None,
             Update([network_error |-> "details"], extra))

TransportErrorDroppingExtra(fault, extra) ==
    LLMError("LLMProviderError", [form |-> "transport"], Some(provider_name), None,
             IF fault = "timeout" THEN [timeout |-> TRUE]
                                  ELSE [network_error |-> "details"])

TransportError(fault, extra) ==
    LLMError("LLMProviderError", [form |-> "transport"], Some(provider_name), None,
             Update(IF fault = "timeout" THEN [timeout |-> TRUE]
                                         ELSE [network_error |-> "details"],
                    extra))

\* What the network does to one awaited HTTP operation.
Faults == {"timeout", "network"}

-----------------------------------------------------------------------------
(* The HTTP client of a call *)

\* "async with" leaves its block by return, by an exception, or by the
\* closing of the generator it is in: __aexit__ runs on each and closes
\* what the block had opened.
ReleaseOnReturnOnly(resource, how) ==
    IF resource = "open" /\ how = "return" THEN "closed" ELSE resource

Release(resource, how) == IF resource = "open" THEN "closed" ELSE resource

\* One HTTP request: client.post, client.get and client.stream each send one.
IssueRequestAndRepeat(requests, method, endpoint) ==
    requests \o <<[method |-> method, endpoint |-> endpoint],
                  [method |-> method, endpoint |-> endpoint]>>

IssueRequest(requests, method, endpoint) ==
    Append(requests, [method |-> method, endpoint |-> endpoint])

\* https://generativelanguage.googleapis.com/v1beta/models/{model}:{action}
\* and, for the listing, .../v1beta/models; the key parameter is left out.
ModelUrl(model, action) == [model |-> Some(model), action |-> action]

ModelsUrl == [model |-> None, action |-> "list"]

-----------------------------------------------------------------------------
(* What the provider logs *)

\* A log record is the number of the source line that writes it and its
\* text: a sequence of characters in which a value that is formatted whole
\* (a model name, a payload, a count, a vendor's text) is one element.
LogRecord(line, text) == [line |-> line, text |-> text]

\* self.config.get_decrypted_api_key()
DecryptedApiKey(cfg) == cfg.api_key

\* "..."
Dots == <<".", ".", ".">>

\* "[too_short]"
TooShort == <<"[", "t", "o", "o", "_", "s", "h", "o", "r", "t", "]">>

\* "[API_KEY_HIDDEN]"
ApiKeyHidden == <<"[", "A", "P", "I", "_", "K", "E", "Y", "_", "H", "I", "D", "D", "E", "N", "]">>

\* The longest key that is logged as "[too_short]".
ShortKeyLength == 12

KeyPreviewOfAnyLength(api_key) ==
    SubSeq(api_key, 1, IF Len(api_key) < 8 THEN Len(api_key) ELSE 8) \o Dots
        \o SubSeq(api_key, IF Len(api_key) < 4 THEN 1 ELSE Len(api_key) - 3,
                  Len(api_key))

\* f"{api_key[:8]}...{api_key[-4:]}" if len(api_key) > 12 else "[too_short]"
KeyPreview(api_key) ==
    IF Len(api_key) > ShortKeyLength
    THEN SubSeq(api_key, 1, 8) \o Dots
             \o SubSeq(api_key, Len(api_key) - 3, Len(api_key))
    ELSE TooShort

\* text.startswith(old), for a non-empty old
StartsWith(text, old) ==
    Len(text) >= Len(old) /\ SubSeq(text, 1, Len(old)) = old

\* text.replace(old, new), for a non-empty old: every occurrence of old,
\* found from the left and not overlapping, becomes new.
RECURSIVE Replace(_, _, _)
Replace(text, old, new) ==
    IF text = <<>> THEN <<>>
    ELSE IF StartsWith(text, old)
    THEN new \o Replace(SubSeq(text, Len(old) + 1, Len(text)), old, new)
    ELSE <<Head(text)>> \o Replace(Tail(text), old, new)

\* f"https://generativelanguage.googleapis.com/v1beta/models/{model}:{action}?key={api_key}"
UrlText(model, action, api_key) ==
    <<"https://generativelanguage.googleapis.com/v1beta/models/", model, ":",
      action, "?", "k", "e", "y", "=">> \o api_key

SafeUrlUnreplaced(url, api_key) == url

\* safe_url = url.replace(api_key, "[API_KEY_HIDDEN]")
SafeUrl(url, api_key) == Replace(url, api_key, ApiKeyHidden)

\* What _validate_configuration logs when the configuration passes.
ValidationLog(cfg) ==
    <<LogRecord(36, <<"Google config validation - Endpoint: ", cfg.api_endpoint[1],
                      ", Key: ">> \o KeyPreview(DecryptedApiKey(cfg)))>>

\* What send_chat_request logs before it awaits client.post.
SendLog(req, cfg, model, payload) ==
    <<LogRecord(103, <<"SENDING TO GOOGLE API: model=", model>>),
      LogRecord(104, <<"Full Google payload: ", "{payload}">>),
      LogRecord(112, <<"Making Google API request to: ">>
                     \o SafeUrl(UrlText(model, "generateContent",
                                        DecryptedApiKey(cfg)),
                                DecryptedApiKey(cfg))),
      LogRecord(113, <<"Request payload size: ", "{len}">>)>>

\* What stream_chat_request logs before it awaits client.stream.
StreamLog(req, cfg, model, payload) ==
    <<LogRecord(419, <<"Starting Google streaming request to: ">>
                     \o SafeUrl(UrlText(model, "streamGenerateContent",
                                        DecryptedApiKey(cfg)),
                                DecryptedApiKey(cfg))),
      LogRecord(420, <<"Streaming payload: ", "{len}">>)>>

\* What _process_success_response logs.
SuccessLog(model) ==
    <<LogRecord(151, <<"RECEIVED FROM GOOGLE API: model=", model, "{len}">>)>>

\* What stream_chat_request logs of a status other than 200.
StreamFailedLog ==
    <<LogRecord(430, <<"Google streaming failed with status ", "{status}">>)>>

\* What stream_chat_request logs once its loop is over.
StreamCompletedLog ==
    <<LogRecord(497, <<"Google streaming completed. Total content: ", "{len}">>)>>

\* What get_available_models logs before it awaits client.get.
FetchingLog ==
    <<LogRecord(274, <<"Fetching available models from Google Gemini API">>)>>

\* What get_available_models logs of a listing.
FetchedLog ==
    <<LogRecord(296, <<"Fetched ", "{len}", " models from Google Gemini API">>)>>

\* What _handle_error_response logs: the decoded error, or the raw text;
\* nothing when the body cannot be read.
ErrorLog(response) ==
    IF ~response.read THEN <<>>
    ELSE IF response.body \in {"error_object", "empty_object"}
    THEN <<LogRecord(185, <<"GOOGLE API ERROR: ", "{status}", "{message}">>),
           LogRecord(186, <<"Full error response: ", "{error_data}">>)>>
    ELSE <<LogRecord(194, <<"RAW GOOGLE API ERROR: ", "{status}", "{text}">>)>>

-----------------------------------------------------------------------------
(* send_chat_request *)

\* Up to the await of client.post: validation, the payload, the request sent.
SendStart ==
    /\ send.pc = "init"
    /\ LET invalid == ValidateConfiguration(config)
       IN  /\ send' = IF invalid # NoResult
                      THEN [send EXCEPT !.pc = "raised", !.result = invalid]
                      ELSE [send EXCEPT
                              !.pc = "awaiting",
                              !.model = ModelFor(request, config),
                              !.payload = SendPayload(request, config),
                              !.client = "open",
                              !.log = send.log \o ValidationLog(config)
                                  \o SendLog(request, config,
                                             ModelFor(request, config),
                                             SendPayload(request, config)),
                              !.requests = IssueRequest(
                                  send.requests, "POST",
                                  ModelUrl(ModelFor(request, config),
                                           "generateContent"))]
           /\ request' = IF invalid # NoResult
                         THEN request
                         ELSE RequestAfterPayload(request, config)
    /\ UNCHANGED <<config, vendor, stream, models, estimate, probe>>

\* client.post returns the vendor's response, read in full.
SendResponse ==
    /\ send.pc = "awaiting"
    /\ \E response_time_ms \in 0..MaxElapsed :
          LET response == [status_code |-> vendor.status,
                           body |-> vendor.error_body, read |-> TRUE]
              result == SendOutcome(response, vendor.reply, response_time_ms,
                                    send.model, config)
          IN  send' = [send EXCEPT
                          !.pc = IF result.type = "return" THEN "returned"
                                                           ELSE "raised",
                          !.http_status = Some(response.status_code),
                          !.result = result,
                          !.log = send.log \o
                              (IF response.status_code = 200
                               THEN SuccessLog(send.model)
                               ELSE ErrorLog(response)),
                          !.client = Release(send.client, result.type)]
    /\ UNCHANGED <<config, request, vendor, stream, models, estimate, probe>>

\* client.post raises httpx.TimeoutException or another httpx.RequestError.
SendFault ==
    /\ send.pc = "awaiting"
    /\ \E fault \in Faults :
          send' = [send EXCEPT !.pc = "raised", !.fault = fault,
                               !.result = Raise(TransportError(fault, EmptyDict)),
                               !.client = Release(send.client, "raise")]
    /\ UNCHANGED <<config, request, vendor, stream, models, estimate, probe>>

-----------------------------------------------------------------------------
(* stream_chat_request *)

\* Characters per token of the usage estimate.
CharsPerToken == 4

Max(a, b) == IF a >= b THEN a ELSE b

\* The characters of the texts of the parts of one payload entry.
RECURSIVE PartsChars(_)
PartsChars(parts) ==
    IF parts = <<>> THEN 0
    ELSE Len(Get(Head(parts), "text", <<>>)) + PartsChars(Tail(parts))

\* The characters of the texts of all the parts of the payload's contents.
RECURSIVE InputChars(_)
InputChars(contents) ==
    IF contents = <<>> THEN 0
    ELSE PartsChars(Get(Head(contents), "parts", <<>>)) + InputChars(Tail(contents))

EstimateUsageWithoutFloor(content, payload) ==
    LET estimated_input_tokens ==
            InputChars(Get(payload, "contents", <<>>)) \div CharsPerToken
        estimated_output_tokens == Len(content) \div CharsPerToken
    IN  [input_tokens  |-> estimated_input_tokens,
         output_tokens |-> estimated_output_tokens,
         total_tokens  |-> estimated_input_tokens + estimated_output_tokens]

\* _estimate_usage_from_content
EstimateUsageFromContent(content, payload) ==
    LET estimated_input_tokens ==
            Max(1, InputChars(Get(payload, "contents", <<>>)) \div CharsPerToken)
        estimated_output_tokens == Max(1, Len(content) \div CharsPerToken)
    IN  [input_tokens  |-> estimated_input_tokens,
         output_tokens |-> estimated_output_tokens,
         total_tokens  |-> estimated_input_tokens + estimated_output_tokens]

ChunkTextUnlessFinishing(chunk_data) ==
    LET candidates == Get(chunk_data, "candidates", <<>>)
    IN  IF Len(candidates) > 0 /\ "finishReason" \notin DOMAIN candidates[1]
           /\ Truthy(Get(candidates[1], "content", EmptyDict))
        THEN LET parts == Get(candidates[1]["content"], "parts", <<>>)
             IN  IF Len(parts) > 0 THEN Get(parts[1], "text", <<>>) ELSE <<>>
        ELSE <<>>

\* The text a streamed chunk carries: the first part of its first candidate.
ChunkText(chunk_data) ==
    LET candidates == Get(chunk_data, "candidates", <<>>)
    IN  IF Len(candidates) > 0 /\ Truthy(Get(candidates[1], "content", EmptyDict))
        THEN LET parts == Get(candidates[1]["content"], "parts", <<>>)
             IN  IF Len(parts) > 0 THEN Get(parts[1], "text", <<>>) ELSE <<>>
        ELSE <<>>

\* if candidates and "finishReason" in candidates[0]
IsFinalChunk(chunk_data) ==
    LET candidates == Get(chunk_data, "candidates", <<>>)
    IN  Len(candidates) > 0 /\ "finishReason" \in DOMAIN candidates[1]

ContentChunk(content, model) ==
    [content |-> content, is_final |-> FALSE, model |-> model,
     provider |-> provider_name]

FinalChunkWithoutCost(model, usage, cost, response_time_ms) ==
    [content |-> <<>>, is_final |-> TRUE, model |-> model,
     provider |-> provider_name, usage |-> usage,
     response_time_ms |-> response_time_ms]

FinalChunk(model, usage, cost, response_time_ms) ==
    [content |-> <<>>, is_final |-> TRUE, model |-> model,
     provider |-> provider_name, usage |-> usage, cost |-> cost,
     response_time_ms |-> response_time_ms]

ProcessChunkDataWithoutBreak(chunk_data, accumulated_content, payload, model, cfg, response_time_ms) ==
    LET content == ChunkText(chunk_data)
        accumulated == IF Truthy(content) THEN accumulated_content \o content
                                          ELSE accumulated_content
        yielded == IF Truthy(content) THEN <<ContentChunk(content, model)>>
                                      ELSE <<>>
        usage_metadata == Get(chunk_data, "usageMetadata", JObject(EmptyDict))
    IN  IF ~IsFinalChunk(chunk_data)
        THEN [yielded |-> yielded, accumulated |-> accumulated, break |-> FALSE]
        ELSE IF JTruthy(usage_metadata) /\ usage_metadata.type # "object"
        THEN [yielded |-> yielded, accumulated |-> accumulated, break |-> FALSE]
        ELSE LET final_usage ==
                     IF JTruthy(usage_metadata)
                     THEN ReportedUsage(usage_metadata.v)
                     ELSE EstimateUsageFromContent(accumulated, payload)
                 final_cost == CalculateActualCost(final_usage, cfg)
             IN  [yielded |-> yielded \o <<FinalChunk(model, final_usage, final_cost,
                                                      response_time_ms)>>,
                  accumulated |-> accumulated,
                  break |-> FALSE]

\* What the body of the loop does with a line that json.loads decoded to an
\* object: the chunks it yields, the content accumulated, whether it breaks.
\* An exception after the content chunk (usage metadata that is no object)
\* is caught by "except Exception: continue": the content chunk stays
\* yielded and the loop goes on.
ProcessChunkData(chunk_data, accumulated_content, payload, model, cfg, response_time_ms) ==
    LET content == ChunkText(chunk_data)
        accumulated == IF Truthy(content) THEN accumulated_content \o content
                                          ELSE accumulated_content
        yielded == IF Truthy(content) THEN <<ContentChunk(content, model)>>
                                      ELSE <<>>
        usage_metadata == Get(chunk_data, "usageMetadata", JObject(EmptyDict))
    IN  IF ~IsFinalChunk(chunk_data)
        THEN [yielded |-> yielded, accumulated |-> accumulated, break |-> FALSE]
        ELSE IF JTruthy(usage_metadata) /\ usage_metadata.type # "object"
        THEN [yielded |-> yielded, accumulated |-> accumulated, break |-> FALSE]
        ELSE LET final_usage ==
                     IF JTruthy(usage_metadata)
                     THEN ReportedUsage(usage_metadata.v)
                     ELSE EstimateUsageFromContent(accumulated, payload)
                 final_cost == CalculateActualCost(final_usage, cfg)
             IN  [yielded |-> yielded \o <<FinalChunk(model, final_usage, final_cost,
                                                      response_time_ms)>>,
                  accumulated |-> accumulated,
                  break |-> TRUE]

ProcessLineAbortingOnBadLine(line, accumulated_content, payload, model, cfg, response_time_ms) ==
    IF line.kind = "blank"
    THEN [yielded |-> <<>>, accumulated |-> accumulated_content, break |-> FALSE]
    ELSE IF line.kind = "invalid_json" \/ line.value.type # "object"
    THEN [yielded |-> <<>>, accumulated |-> accumulated_content, break |-> TRUE]
    ELSE ProcessChunkData(line.value.v, accumulated_content, payload, model, cfg,
                          response_time_ms)

ProcessLineRepeatingChunks(line, accumulated_content, payload, model, cfg, response_time_ms) ==
    IF line.kind = "blank"
    THEN [yielded |-> <<>>, accumulated |-> accumulated_content, break |-> FALSE]
    ELSE IF line.kind = "invalid_json" \/ line.value.type # "object"
    THEN [yielded |-> <<>>, accumulated |-> accumulated_content, break |-> FALSE]
    ELSE LET step == ProcessChunkData(line.value.v, accumulated_content, payload,
                                      model, cfg, response_time_ms)
         IN  [step EXCEPT !.yielded = step.yielded \o step.yielded]

\* One iteration of "async for line in response.aiter_lines()": a blank line
\* is passed over, a line json.loads rejects is skipped (JSONDecodeError), and
\* so is a line that decodes to something without .get (AttributeError).
ProcessLine(line, accumulated_content, payload, model, cfg, response_time_ms) ==
    IF line.kind = "blank"
    THEN [yielded |-> <<>>, accumulated |-> accumulated_content, break |-> FALSE]
    ELSE IF line.kind = "invalid_json" \/ line.value.type # "object"
    THEN [yielded |-> <<>>, accumulated |-> accumulated_content, break |-> FALSE]
    ELSE ProcessChunkData(line.value.v, accumulated_content, payload, model, cfg,
                          response_time_ms)

\* What the loop of stream_chat_request logs of a line: the exception of a
\* decoded line whose processing raises; nothing of a blank line, of a line
\* that is no JSON, or of a line it processes.
ChunkErrorLog(line) ==
    IF line.kind # "json" THEN <<>>
    ELSE IF line.value.type # "object"
            \/ (/\ IsFinalChunk(line.value.v)
                /\ JTruthy(Get(line.value.v, "usageMetadata", JObject(EmptyDict)))
                /\ Get(line.value.v, "usageMetadata",
                       JObject(EmptyDict)).type # "object")
    THEN <<LogRecord(494, <<"Error processing streaming chunk: ", "{str(e)}">>)>>
    ELSE <<>>

\* The generator's first step, up to the await of client.stream: validation,
\* the payload, the request sent.
StreamStart ==
    /\ stream.pc = "init"
    /\ LET invalid == ValidateConfiguration(config)
       IN  /\ stream' = IF invalid # NoResult
                        THEN [stream EXCEPT !.pc = "raised", !.result = invalid]
                        ELSE [stream EXCEPT
                                !.pc = "opening",
                                !.model = StreamModelFor(request, config),
                                !.payload = StreamPayload(request, config),
                                !.client = "open",
                                !.log = stream.log \o ValidationLog(config)
                                    \o StreamLog(request, config,
                                                 StreamModelFor(request, config),
                                                 StreamPayload(request, config)),
                                !.requests = IssueRequest(
                                    stream.requests, "POST",
                                    ModelUrl(StreamModelFor(request, config),
                                             "streamGenerateContent"))]
           /\ request' = IF invalid # NoResult
                         THEN request
                         ELSE RequestAfterPayload(request, config)
    /\ UNCHANGED <<config, vendor, send, models, estimate, probe>>

\* The response's status line and headers arrive; its body is not read yet.
StreamOpen ==
    /\ stream.pc = "opening"
    /\ LET response == [status_code |-> vendor.status,
                        body |-> vendor.error_body, read |-> FALSE]
       IN  IF response.status_code # 200
           THEN stream' = [stream EXCEPT
                              !.pc = "raised",
                              !.http_status = Some(response.status_code),
                              !.result = Raise(HandleErrorResponse(response)),
                              !.log = stream.log \o StreamFailedLog
                                          \o ErrorLog(response),
                              !.response = Release("open", "raise"),
                              !.client = Release(stream.client, "raise")]
           ELSE stream' = [stream EXCEPT !.pc = "reading",
                                         !.http_status = Some(response.status_code),
                                         !.accumulated_content = <<>>,
                                         !.response = "open"]
    /\ UNCHANGED <<config, request, vendor, send, models, estimate, probe>>

\* aiter_lines delivers the next line of the body and the loop body runs.
StreamLine ==
    /\ stream.pc = "reading"
    /\ stream.pos < Len(vendor.lines)
    /\ \E response_time_ms \in 0..MaxElapsed :
          LET step == ProcessLine(vendor.lines[stream.pos + 1],
                                  stream.accumulated_content, stream.payload,
                                  stream.model, config, response_time_ms)
          IN  stream' = [stream EXCEPT
                            !.pos = stream.pos + 1,
                            !.accumulated_content = step.accumulated,
                            !.chunks = stream.chunks \o step.yielded,
                            !.chunk_lines = stream.chunk_lines
                                \o [i \in 1..Len(step.yielded) |-> stream.pos + 1],
                            !.pc = IF step.break THEN "done" ELSE "reading",
                            !.log = stream.log
                                \o ChunkErrorLog(vendor.lines[stream.pos + 1])
                                \o (IF step.break THEN StreamCompletedLog
                                                  ELSE <<>>),
                            !.result = IF step.break THEN [type |-> "end"]
                                                     ELSE stream.result,
                            !.response = IF step.break
                                         THEN Release(stream.response, "return")
                                         ELSE stream.response,
                            !.client = IF step.break
                                       THEN Release(stream.client, "return")
                                       ELSE stream.client]
    /\ UNCHANGED <<config, request, vendor, send, models, estimate, probe>>

\* The body is exhausted: the loop and the generator end.
StreamEnd ==
    /\ stream.pc = "reading"
    /\ stream.pos = Len(vendor.lines)
    /\ stream' = [stream EXCEPT !.pc = "done", !.result = [type |-> "end"],
                                 !.log = stream.log \o StreamCompletedLog,
                                 !.response = Release(stream.response, "return"),
                                 !.client = Release(stream.client, "return")]
    /\ UNCHANGED <<config, request, vendor, send, models, estimate, probe>>

\* client.stream or aiter_lines raises httpx.TimeoutException or another
\* httpx.RequestError: while connecting, sending, or reading any line.
StreamFault ==
    /\ stream.pc \in {"opening", "reading"}
    /\ \E fault \in Faults :
          stream' = [stream EXCEPT
                        !.pc = "raised", !.fault = fault,
                        !.result = Raise(TransportError(fault,
                                                        [streaming |-> TRUE])),
                        !.response = Release(stream.response, "raise"),
                        !.client = Release(stream.client, "raise")]
    /\ UNCHANGED <<config, request, vendor, send, models, estimate, probe>>

\* The consumer closes the generator, or abandons it and the event loop
\* finalizes it, while it is suspended at a yield, or cancels the task that
\* awaits its next chunk: GeneratorExit or CancelledError is raised where
\* the generator is suspended; neither is an Exception, so no except clause
\* of the generator catches it and it leaves both "async with" blocks.
StreamClose ==
    /\ stream.pc \in {"opening", "reading"}
    /\ stream' = [stream EXCEPT
                     !.pc = "closed",
                     !.response = Release(stream.response, "close"),
                     !.client = Release(stream.client, "close")]
    /\ UNCHANGED <<config, request, vendor, send, models, estimate, probe>>

-----------------------------------------------------------------------------
(* get_available_models *)

\* model_name.startswith("models/"); a name is a list of segments, each the
\* literal "models/" or a text that does not contain it.
StartsWithModels(model_name) == Len(model_name) > 0 /\ model_name[1] = "models/"

\* model_name.replace("models/", "")
WithoutModels(model_name) == SelectSeq(model_name, LAMBDA seg : seg # "models/")

\* The identifiers of the listing, in its order.
RECURSIVE ModelIds(_)
ModelIds(listing) ==
    IF listing = <<>> THEN <<>>
    ELSE LET model == Head(listing)
             model_name == Get(model, "name", <<>>)
         IN  (IF StartsWithModels(model_name)
                 /\ "generateContent" \in Get(model, "supportedGenerationMethods", {})
              THEN <<WithoutModels(model_name)>>
              ELSE <<>>) \o ModelIds(Tail(listing))

ModelsStart ==
    /\ models.pc = "init"
    /\ LET invalid == ValidateConfiguration(config)
       IN  IF invalid # NoResult
           THEN models' = [models EXCEPT !.pc = "raised", !.result = invalid]
           ELSE models' = [models EXCEPT
                             !.pc = "awaiting",
                             !.client = "open",
                             !.log = models.log \o ValidationLog(config)
                                         \o FetchingLog,
                             !.requests = IssueRequest(models.requests, "GET",
                                                       ModelsUrl)]
    /\ UNCHANGED <<config, request, vendor, send, stream, estimate, probe>>

ModelsResponse ==
    /\ models.pc = "awaiting"
    /\ LET response == [status_code |-> vendor.status,
                        body |-> vendor.error_body, read |-> TRUE]
       IN  IF response.status_code = 200
           THEN models' = [models EXCEPT
                              !.pc = "returned",
                              !.http_status = Some(response.status_code),
                              !.result = Return(ModelIds(vendor.listing)),
                              !.log = models.log \o FetchedLog,
                              !.client = Release(models.client, "return")]
           ELSE models' = [models EXCEPT
                              !.pc = "raised",
                              !.http_status = Some(response.status_code),
                              !.result = Raise(HandleErrorResponse(response)),
                              !.log = models.log \o ErrorLog(response),
                              !.client = Release(models.client, "raise")]
    /\ UNCHANGED <<config, request, vendor, send, stream, estimate, probe>>

ModelsFault ==
    /\ models.pc = "awaiting"
    /\ \E fault \in Faults :
          models' = [models EXCEPT !.pc = "raised", !.fault = fault,
                                   !.result = Raise(TransportError(fault, EmptyDict)),
                                   !.client = Release(models.client, "raise")]
    /\ UNCHANGED <<config, request, vendor, send, stream, estimate, probe>>

-----------------------------------------------------------------------------
(* estimate_cost *)

Min(a, b) == IF a <= b THEN a ELSE b

\* sum(len(msg.content) for msg in request.messages)
RECURSIVE TotalChars(_)
TotalChars(messages) ==
    IF messages = <<>> THEN 0
    ELSE Len(Head(messages).content) + TotalChars(Tail(messages))

\* estimated_input_tokens = total_chars // 4
EstimatedInputTokens(req) == TotalChars(req.messages) \div CharsPerToken

\* The max_tokens default of estimate_cost.
DefaultMaxTokens == 1000

\* request.max_tokens or self.config.model_parameters.get("max_tokens", 1000):
\* a max_tokens of None or 0 is falsy and passes to the configuration, whose
\* model_parameters is asked .get even when it is None (AttributeError).
MaxTokensOr(req, cfg) ==
    IF req.max_tokens # None /\ req.max_tokens[1] # 0
    THEN Return(req.max_tokens[1])
    ELSE IF cfg.model_parameters = None
    THEN Raise(PyError("AttributeError"))
    ELSE Return(Get(cfg.model_parameters[1], "max_tokens", DefaultMaxTokens))

\* estimated_output_tokens = min(max_tokens, estimated_input_tokens // 2)
EstimatedOutputTokens(max_tokens, estimated_input_tokens) ==
    Min(max_tokens, estimated_input_tokens \div 2)

\* LLMConfiguration.calculate_request_cost: the tokens priced per token (in
\* millionths of a dollar).
CalculateRequestCost(cfg, input_tokens, output_tokens) ==
    input_tokens * cfg.input_price + output_tokens * cfg.output_price

\* estimate_cost: its outcome, with the two estimates it priced.
EstimateCost(req, cfg) ==
    IF ~cfg.has_cost_tracking
    THEN [result |-> Return(None), input_tokens |-> None, output_tokens |-> None]
    ELSE LET estimated_input_tokens == EstimatedInputTokens(req)
             max_tokens == MaxTokensOr(req, cfg)
         IN  IF max_tokens.type = "raise"
             THEN [result |-> max_tokens,
                   input_tokens |-> Some(estimated_input_tokens),
                   output_tokens |-> None]
             ELSE LET estimated_output_tokens ==
                          EstimatedOutputTokens(max_tokens.value,
                                                estimated_input_tokens)
                  IN  [result |-> Return(Some(CalculateRequestCost(
                                     cfg, estimated_input_tokens,
                                     estimated_output_tokens))),
                       input_tokens |-> Some(estimated_input_tokens),
                       output_tokens |-> Some(estimated_output_tokens)]

\* The call of estimate_cost: it runs to its end without awaiting.
EstimateCall ==
    /\ estimate.pc = "init"
    /\ LET outcome == EstimateCost(request, config)
       IN  estimate' = [pc |-> IF outcome.result.type = "return" THEN "returned"
                                                                 ELSE "raised",
                        result |-> outcome.result,
                        input_tokens |-> outcome.input_tokens,
                        output_tokens |-> outcome.output_tokens]
    /\ UNCHANGED <<config, request, vendor, send, stream, models, probe>>

-----------------------------------------------------------------------------
(* test_connection *)

\* "Hello! This is a test."
TestText ==
    <<"H", "e", "l", "l", "o", "!", " ", "T", "h", "i", "s", " ", "i", "s", " ",
      "a", " ", "t", "e", "s", "t", ".">>

\* ChatRequest(messages=[ChatMessage("user", "Hello! This is a test.")],
\* max_tokens=10); the fields it does not name are unset.
TestRequest ==
    [messages     |-> <<[role |-> "user", content |-> TestText]>>,
     model        |-> None,
     temperature  |-> None,
     max_tokens   |-> Some(10),
     extra_params |-> EmptyDict]

\* The exception classes of the provider layer.
LLMErrorKinds ==
    {"LLMProviderError", "LLMConfigurationError", "LLMQuotaExceededError"}

ConnectionResultOfProviderErrors(outcome, response_time) ==
    IF outcome.type = "return"
    THEN Return([success          |-> TRUE,
                 message          |-> "Connection successful",
                 response_time_ms |-> response_time,
                 model            |-> outcome.value.model,
                 cost             |-> outcome.value.cost])
    ELSE IF outcome.error.kind \in LLMErrorKinds
    THEN Return([success    |-> FALSE,
                 message    |-> [form |-> "failed", error |-> outcome.error.message],
                 error_type |-> outcome.error.kind])
    ELSE outcome

\* What test_connection makes of the outcome of its send_chat_request: the
\* mapping of a success, or, under "except Exception", that of a failure.
ConnectionResult(outcome, response_time) ==
    IF outcome.type = "return"
    THEN Return([success          |-> TRUE,
                 message          |-> "Connection successful",
                 response_time_ms |-> response_time,
                 model            |-> outcome.value.model,
                 cost             |-> outcome.value.cost])
    ELSE Return([success    |-> FALSE,
                 message    |-> [form |-> "failed", error |-> outcome.error.message],
                 error_type |-> outcome.error.kind])

\* Where test_connection is once its send_chat_request has ended.
ProbePc(result) == IF result.type = "return" THEN "returned" ELSE "raised"

\* test_connection up to the await of client.post inside send_chat_request,
\* or to its end when the configuration fails validation.
ProbeStart ==
    /\ probe.pc = "init"
    /\ LET invalid == ValidateConfiguration(config)
       IN  IF invalid # NoResult
           THEN LET result == ConnectionResult(invalid, 0)
                IN  probe' = [probe EXCEPT !.pc = ProbePc(result),
                                           !.result = result]
           ELSE probe' = [probe EXCEPT
                            !.pc = "awaiting",
                            !.model = ModelFor(TestRequest, config),
                            !.payload = SendPayload(TestRequest, config),
                            !.client = "open",
                            !.log = probe.log \o ValidationLog(config)
                                \o SendLog(TestRequest, config,
                                           ModelFor(TestRequest, config),
                                           SendPayload(TestRequest, config)),
                            !.requests = IssueRequest(
                                probe.requests, "POST",
                                ModelUrl(ModelFor(TestRequest, config),
                                         "generateContent"))]
    /\ UNCHANGED <<config, request, vendor, send, stream, models, estimate>>

\* The vendor answers the probe; response_time_ms is the time
\* send_chat_request measured and response_time the one test_connection did.
ProbeResponse ==
    /\ probe.pc = "awaiting"
    /\ \E response_time_ms \in 0..MaxElapsed :
       \E response_time \in response_time_ms..MaxElapsed :
          LET response == [status_code |-> vendor.status,
                           body |-> vendor.error_body, read |-> TRUE]
              outcome == SendOutcome(response, vendor.reply, response_time_ms,
                                     probe.model, config)
              result == ConnectionResult(outcome, response_time)
          IN  probe' = [probe EXCEPT
                           !.pc = ProbePc(result),
                           !.http_status = Some(response.status_code),
                           !.result = result,
                           !.log = probe.log \o
                               (IF response.status_code = 200
                                THEN SuccessLog(probe.model)
                                ELSE ErrorLog(response)),
                           !.client = Release(probe.client, outcome.type)]
    /\ UNCHANGED <<config, request, vendor, send, stream, models, estimate>>

\* The probe's client.post raises httpx.TimeoutException or another
\* httpx.RequestError.
ProbeFault ==
    /\ probe.pc = "awaiting"
    /\ \E fault \in Faults :
          LET result == ConnectionResult(Raise(TransportError(fault, EmptyDict)), 0)
          IN  probe' = [probe EXCEPT !.pc = ProbePc(result), !.fault = fault,
                                     !.result = result,
                                     !.client = Release(probe.client, "raise")]
    /\ UNCHANGED <<config, request, vendor, send, stream, models, estimate>>

-----------------------------------------------------------------------------
(* The inputs: configurations, requests and mocked vendors *)

Roles == {"system", "user", "assistant"}

Terse == <<"t", "e", "r", "s", "e">>

Hi == <<"H", "i">>

Hello == <<"H", "e", "l", "l", "o">>

Messages ==
    {[role |-> "system", content |-> Terse], [role |-> "user", content |-> Hi],
     [role |-> "user", content |-> Terse], [role |-> "assistant", content |-> Hello]}

\* request.temperature (in tenths) and request.max_tokens
Temperatures == {None, Some(0), Some(7)}

MaxTokens == {None, Some(0), Some(10)}

\* config.model_parameters: None, empty, or with either default or both.
ModelParameters ==
    {None, Some(EmptyDict), Some([temperature |-> 3]), Some([max_tokens |-> 20]),
     Some([temperature |-> 3, max_tokens |-> 20])}

OverridingContents == <<[parts |-> <<[text |-> <<"X">>]>>, role |-> "user"]>>

\* request.extra_params: empty, a key the provider does not derive, and
\* overrides of the derived keys.
ExtraParams ==
    {EmptyDict,
     [safetySettings |-> <<"BLOCK_NONE">>],
     [contents |-> OverridingContents],
     [generationConfig |-> [topK |-> 5]],
     [generationConfig |-> [topK |-> 5], safetySettings |-> <<"BLOCK_NONE">>]}

Requests ==
    [messages     : SeqsUpTo(Messages, MaxMessages),
     model        : {None, Some("gemini-2.5-flash")},
     temperature  : Temperatures,
     max_tokens   : MaxTokens,
     extra_params : ExtraParams]

\* The request of the specifications that vary the vendor, not the request.
PlainRequest ==
    [messages     |-> <<[role |-> "system", content |-> Terse],
                        [role |-> "user", content |-> Hi]>>,
     model        |-> None,
     temperature  |-> None,
     max_tokens   |-> None,
     extra_params |-> EmptyDict]

\* An Optional[str] of the configuration: None, empty or set.
OptionalSettings == {None, Some(""), Some("set")}

\* Decrypted API keys: one that occurs in the URL's own text, and keys
\* of 8, 12, 13 and 16 characters, around the length of 12 at which the
\* preview changes.
ApiKeyOf3 == <<"k", "e", "y">>

ApiKeyOf8 == <<"A", "I", "z", "a", "S", "y", "D", "4">>

ApiKeyOf12 == <<"A", "I", "z", "a", "S", "y", "D", "4", "x", "9", "Q", "w">>

ApiKeyOf13 == <<"A", "I", "z", "a", "S", "y", "D", "4", "x", "9", "Q", "w", "E">>

ApiKeyOf16 == <<"A", "I", "z", "a", "S", "y", "D", "4", "x", "9", "Q", "w", "E", "-", "7", "_">>

ApiKeys == {ApiKeyOf3, ApiKeyOf8, ApiKeyOf12, ApiKeyOf13, ApiKeyOf16}

ConfigWith(api_key_encrypted, api_endpoint, model_parameters) ==
    [api_key_encrypted |-> api_key_encrypted,
     api_key           |-> ApiKeyOf16,
     api_endpoint      |-> api_endpoint,
     default_model     |-> "gemini-1.5-pro",
     model_parameters  |-> model_parameters,
     has_cost_tracking |-> TRUE,
     input_price       |-> 1,
     output_price      |-> 2]

ValidConfig == ConfigWith(Some("set"), Some("set"), Some([max_tokens |-> 20]))

\* The texts a streamed line may carry.
Deltas == {<<"a">>, <<"b", "c">>}

ReportedMetadata ==
    [promptTokenCount |-> 7, candidatesTokenCount |-> 5, totalTokenCount |-> 12]

\* usageMetadata of a line: absent, an object of counts, or not an object.
UsageFields ==
    {EmptyDict,
     [usageMetadata |-> JObject(ReportedMetadata)],
     [usageMetadata |-> JArray(1)]}

Finish == [finishReason |-> "STOP"]

\* The "content" of a candidate that carries the text t.
ContentOf(t) == [content |-> [parts |-> <<[text |-> t]>>, role |-> "model"]]

\* A decoded line whose first candidate has the fields given.
ObjectLine(content, finish, usage) ==
    [kind  |-> "json",
     value |-> JObject(Update([candidates |->
                                  <<Update(Update([index |-> 0], content), finish)>>],
                              usage))]

\* The lines that carry the text t.
LinesCarrying(t) ==
    {ObjectLine(ContentOf(t), EmptyDict, EmptyDict)}
    \cup (IF t = <<"a">>
          THEN {ObjectLine(ContentOf(t), Finish, u) : u \in UsageFields}
          ELSE {})

\* The lines that carry no text: blank, not JSON, JSON but no object, an
\* object without candidates, and candidates without content, parts or text.
LinesWithoutText ==
    {[kind |-> "blank"],
     [kind |-> "invalid_json"],
     [kind |-> "json", value |-> JArray(0)],
     [kind |-> "json", value |-> JObject([candidates |-> <<>>])],
     ObjectLine(EmptyDict, EmptyDict, EmptyDict),
     ObjectLine([content |-> [parts |-> <<>>]], EmptyDict, EmptyDict),
     ObjectLine(ContentOf(<<>>), EmptyDict, EmptyDict)}
    \cup {ObjectLine(EmptyDict, Finish, u) : u \in UsageFields}

StreamLines == LinesWithoutText \cup UNION {LinesCarrying(t) : t \in Deltas}

\* The text the vendor put on a line.
DeltaOf(line) ==
    IF line \in LinesWithoutText THEN <<>>
    ELSE CHOOSE t \in Deltas : line \in LinesCarrying(t)

\* The text the vendor transmitted over the whole streaming body.
TransmittedText(lines) == Concat([i \in 1..Len(lines) |-> DeltaOf(lines[i])])

\* A unary 200 body whose first candidate carries the text t.
ReplyWithText(t, usage) ==
    Update([candidates |-> <<Update(ContentOf(t), Finish)>>], usage)

\* The unary 200 bodies without text: no candidates key, zero candidates, a
\* candidate without content or with empty content, empty parts, and a
\* first part that is not text.
RepliesWithoutText ==
    {EmptyDict,
     [candidates |-> <<>>],
     [candidates |-> <<[index |-> 0]>>],
     [candidates |-> <<[content |-> EmptyDict]>>],
     [candidates |-> <<[content |-> [parts |-> <<>>, role |-> "model"]]>>],
     [candidates |-> <<[content |-> [parts |-> <<[functionCall |-> "f"]>>]]>>]}

\* The unary 200 bodies whose first candidate's first part is the text t:
\* alone, followed by a second part, and followed by a second candidate.
RepliesOpeningWith(t) ==
    {ReplyWithText(t, u) : u \in UsageFields}
    \cup {[candidates |-> <<[content |-> [parts |-> <<[text |-> t],
                                                      [text |-> <<"z">>]>>]]>>],
          [candidates |-> <<ContentOf(t), ContentOf(<<"z">>)>>]}

UnaryReplies == RepliesWithoutText \cup UNION {RepliesOpeningWith(t) : t \in Deltas}

Statuses == {200, 400, 401, 403, 429, 500}

ErrorBodies == {"error_object", "empty_object", "array", "not_json"}

Listing ==
    <<[name |-> <<"models/", "gemini-1.5-pro">>,
       supportedGenerationMethods |-> {"generateContent", "countTokens"}],
      [name |-> <<"models/", "embedding-001">>,
       supportedGenerationMethods |-> {"embedContent"}]>>

VendorWith(status, error_body, reply, lines) ==
    [status |-> status, error_body |-> error_body, reply |-> reply,
     lines |-> lines, listing |-> Listing]

\* A call before it starts.  pc is where the call is; http_status is the
\* status of the response it received and fault the transport failure it met
\* (both for the record: the code does not keep them); chunk_lines records
\* for each chunk yielded the number of the line that produced it; client
\* and response are the call's httpx.AsyncClient and streaming response
\* ("none" before they are opened), requests the HTTP requests it sent.
SendInit ==
    [pc |-> "init", model |-> "", payload |-> EmptyDict, result |-> NoResult,
     http_status |-> None, fault |-> "none", client |-> "none",
     requests |-> <<>>, log |-> <<>>]

StreamInit ==
    [pc |-> "init", model |-> "", payload |-> EmptyDict, pos |-> 0,
     accumulated_content |-> <<>>, chunks |-> <<>>, chunk_lines |-> <<>>,
     result |-> NoResult, http_status |-> None, fault |-> "none",
     client |-> "none", response |-> "none", requests |-> <<>>,
     log |-> <<>>]

ModelsInit ==
    [pc |-> "init", result |-> NoResult, http_status |-> None, fault |-> "none",
     client |-> "none", requests |-> <<>>, log |-> <<>>]

\* estimate_cost before it is called.
EstimateInit ==
    [pc |-> "init", result |-> NoResult, input_tokens |-> None,
     output_tokens |-> None]

\* test_connection before it is called; its fields are those of the
\* send_chat_request it makes.
ProbeInit ==
    [pc |-> "init", model |-> "", payload |-> EmptyDict, result |-> NoResult,
     http_status |-> None, fault |-> "none", client |-> "none",
     requests |-> <<>>, log |-> <<>>]

CallsInit ==
    /\ send = SendInit /\ stream = StreamInit /\ models = ModelsInit
    /\ estimate = EstimateInit /\ probe = ProbeInit

-----------------------------------------------------------------------------
(* The specifications *)

\* The three calls on one provider, against every status and credential.
Init ==
    /\ config \in {ConfigWith(k, e, Some([max_tokens |-> 20])) :
                      k \in OptionalSettings, e \in OptionalSettings}
    /\ request = PlainRequest
    /\ vendor \in {VendorWith(s, b, r, l) :
                      s \in Statuses, b \in {"error_object", "not_json"},
                      r \in {ReplyWithText(<<"a">>, EmptyDict),
                             ReplyWithText(<<"a">>, [usageMetadata |-> JArray(1)])},
                      l \in SeqsUpTo({ObjectLine(ContentOf(<<"b", "c">>), EmptyDict,
                                                 EmptyDict),
                                      ObjectLine(ContentOf(<<"a">>), Finish,
                                                 EmptyDict)}, MaxEquivLines)}
    /\ CallsInit

Next ==
    \/ SendStart \/ SendResponse \/ SendFault
    \/ StreamStart \/ StreamOpen \/ StreamLine \/ StreamEnd \/ StreamFault
    \/ StreamClose
    \/ ModelsStart \/ ModelsResponse \/ ModelsFault

Spec == Init /\ [][Next]_vars

\* The payload of every request under every configuration's defaults.
InitPayload ==
    /\ config \in {ConfigWith(Some("set"), Some("set"), mp) : mp \in ModelParameters}
    /\ request \in Requests
    /\ vendor = VendorWith(200, "error_object", ReplyWithText(<<"a">>, EmptyDict), <<>>)
    /\ CallsInit

NextPayload == SendStart \/ StreamStart

SpecPayload == InitPayload /\ [][NextPayload]_vars

\* The unary call against every status, error body and 200 body.
InitUnary ==
    /\ config \in {ValidConfig, ConfigWith(None, Some("set"), None)}
    /\ request = PlainRequest
    /\ vendor \in {VendorWith(s, b, r, <<>>) :
                      s \in Statuses, b \in ErrorBodies, r \in UnaryReplies}
    /\ CallsInit

NextUnary == SendStart \/ SendResponse \/ SendFault

SpecUnary == InitUnary /\ [][NextUnary]_vars

\* The streaming call against every body of at most MaxLines lines, and
\* against every status other than 200.
InitStream ==
    /\ config \in {ValidConfig, ConfigWith(Some("set"), None, None)}
    /\ request = PlainRequest
    /\ vendor \in {VendorWith(200, "error_object", EmptyDict, l) :
                      l \in SeqsUpTo(StreamLines, MaxLines)}
                  \cup {VendorWith(s, b, EmptyDict, l) :
                           s \in Statuses \ {200}, b \in ErrorBodies,
                           l \in SeqsUpTo({ObjectLine(ContentOf(<<"a">>), Finish,
                                                      EmptyDict)}, 1)}
    /\ CallsInit

NextStream == StreamStart \/ StreamOpen \/ StreamLine \/ StreamEnd \/ StreamFault

SpecStream == InitStream /\ [][NextStream]_vars

\* One vendor reply delivered both ways: the unary body carries the text the
\* streaming body transmits.
InitEquiv ==
    /\ config = ValidConfig
    /\ request = PlainRequest
    /\ vendor \in {VendorWith(200, "error_object",
                              ReplyWithText(TransmittedText(l), EmptyDict), l) :
                      l \in SeqsUpTo(StreamLines, MaxEquivLines)}
    /\ CallsInit

NextEquiv ==
    \/ SendStart \/ SendResponse
    \/ StreamStart \/ StreamOpen \/ StreamLine \/ StreamEnd

SpecEquiv == InitEquiv /\ [][NextEquiv]_vars

\* A text long enough to count for two tokens.
Sentence == <<"O", "n", "c", "e", " ", "u", "p", "o", "n">>

\* The longest message list and the longest body of the usage estimates.
MaxUsageMessages == 2

MaxUsageLines == 2

\* Requests whose texts count for zero, one or several tokens, with and
\* without contents of their own in extra_params.
UsageRequests ==
    [messages     : SeqsUpTo({[role |-> "user", content |-> Hi],
                              [role |-> "user", content |-> Sentence]},
                             MaxUsageMessages),
     model        : {None},
     temperature  : {None},
     max_tokens   : {None},
     extra_params : {EmptyDict, [contents |-> OverridingContents]}]

\* Lines with a short or a long text, and finish lines with and without
\* usage metadata.
UsageLines ==
    {ObjectLine(ContentOf(<<"b", "c">>), EmptyDict, EmptyDict),
     ObjectLine(ContentOf(Sentence), EmptyDict, EmptyDict),
     ObjectLine(ContentOf(<<"a">>), Finish, EmptyDict),
     ObjectLine(EmptyDict, Finish, EmptyDict),
     ObjectLine(ContentOf(<<"a">>), Finish, [usageMetadata |-> JObject(ReportedMetadata)])}

\* The streaming call over requests and bodies of every size of estimate.
InitUsage ==
    /\ config = ValidConfig
    /\ request \in UsageRequests
    /\ vendor \in {VendorWith(200, "error_object", EmptyDict, l) :
                      l \in SeqsUpTo(UsageLines, MaxUsageLines)}
    /\ CallsInit

NextUsage == StreamStart \/ StreamOpen \/ StreamLine \/ StreamEnd \/ StreamFault

SpecUsage == InitUsage /\ [][NextUsage]_vars

\* A request that differs from the connection test's in its model, its
\* messages and its parameters.
OtherRequest ==
    [messages     |-> <<[role |-> "user", content |-> Hi]>>,
     model        |-> Some("gemini-2.5-flash"),
     temperature  |-> Some(7),
     max_tokens   |-> None,
     extra_params |-> EmptyDict]

\* A unary call, a streaming call and the connection test, each with its
\* own request, interleaved on one provider.
InitConcurrent ==
    /\ config \in {ValidConfig, ConfigWith(None, Some("set"), None)}
    /\ request = OtherRequest
    /\ vendor \in {VendorWith(s, "error_object", r, l) :
                      s \in {200, 429},
                      r \in {ReplyWithText(<<"a">>, u) : u \in UsageFields},
                      l \in SeqsUpTo({ObjectLine(ContentOf(<<"b", "c">>), EmptyDict,
                                                 EmptyDict),
                                      ObjectLine(ContentOf(<<"a">>), Finish,
                                                 EmptyDict)}, MaxEquivLines)}
    /\ CallsInit

NextConcurrent ==
    \/ SendStart \/ SendResponse \/ SendFault
    \/ StreamStart \/ StreamOpen \/ StreamLine \/ StreamEnd \/ StreamFault
    \/ StreamClose
    \/ ProbeStart \/ ProbeResponse \/ ProbeFault

SpecConcurrent == InitConcurrent /\ [][NextConcurrent]_vars

\* The configurations of the cost estimate: cost tracking on or off,
\* model_parameters absent, empty, and with a small or a large max_tokens.
EstimateConfigs ==
    {[ConfigWith(Some("set"), Some("set"), mp) EXCEPT !.has_cost_tracking = t] :
        mp \in {None, Some(EmptyDict), Some([max_tokens |-> 1]),
                Some([max_tokens |-> 20])},
        t \in BOOLEAN}

\* Requests of no, few and many characters, max_tokens unset, 0, small, large.
EstimateRequests ==
    [messages     : SeqsUpTo({[role |-> "user", content |-> Hi],
                              [role |-> "user", content |-> TestText]},
                             MaxUsageMessages),
     model        : {None},
     temperature  : {None},
     max_tokens   : {None, Some(0), Some(1), Some(10)},
     extra_params : {EmptyDict}]

\* estimate_cost for every request under every configuration.
InitEstimate ==
    /\ config \in EstimateConfigs
    /\ request \in EstimateRequests
    /\ vendor = VendorWith(200, "error_object", ReplyWithText(<<"a">>, EmptyDict), <<>>)
    /\ CallsInit

NextEstimate == EstimateCall

SpecEstimate == InitEstimate /\ [][NextEstimate]_vars

\* The connection test against every status, error body and 200 body, with
\* and without credentials.
InitProbe ==
    /\ config \in {ValidConfig, ConfigWith(None, Some("set"), None),
                   ConfigWith(Some("set"), Some(""), None)}
    /\ request = PlainRequest
    /\ vendor \in {VendorWith(s, b, r, <<>>) :
                      s \in Statuses, b \in ErrorBodies, r \in UnaryReplies}
    /\ CallsInit

NextProbe == ProbeStart \/ ProbeResponse \/ ProbeFault

SpecProbe == InitProbe /\ [][NextProbe]_vars

\* Requests with every kind of extra_params, for the calls run to their end.
FrameRequests ==
    [messages     : {<<[role |-> "system", content |-> Terse],
                       [role |-> "user", content |-> Hi]>>},
     model        : {None, Some(""), Some("gemini-2.5-flash")},
     temperature  : {Some(7)},
     max_tokens   : {None, Some(10)},
     extra_params : ExtraParams]

\* The unary and the streaming call run to every end over these requests.
InitFrame ==
    /\ config \in {ValidConfig, ConfigWith(None, Some("set"), None)}
    /\ request \in FrameRequests
    /\ vendor \in {VendorWith(s, "error_object", ReplyWithText(<<"a">>, EmptyDict), l) :
                      s \in {200, 500},
                      l \in SeqsUpTo({ObjectLine(ContentOf(<<"b", "c">>), EmptyDict,
                                                 EmptyDict),
                                      ObjectLine(ContentOf(<<"a">>), Finish,
                                                 EmptyDict)}, MaxEquivLines)}
    /\ CallsInit

NextFrame ==
    \/ SendStart \/ SendResponse \/ SendFault
    \/ StreamStart \/ StreamOpen \/ StreamLine \/ StreamEnd \/ StreamFault
    \/ StreamClose

SpecFrame == InitFrame /\ [][NextFrame]_vars

\* The longest body of the streams consumed to exhaustion, in lines.
MaxFairLines == 3

\* Lines of every fate: passed over, skipped, emitted, finishing, and
\* failing in their finish step.
FairLines ==
    {[kind |-> "blank"],
     [kind |-> "invalid_json"],
     ObjectLine(ContentOf(<<"b", "c">>), EmptyDict, EmptyDict),
     ObjectLine(ContentOf(<<"a">>), Finish, EmptyDict),
     ObjectLine(ContentOf(<<"a">>), Finish, [usageMetadata |-> JArray(1)]),
     ObjectLine(EmptyDict, Finish, [usageMetadata |-> JObject(ReportedMetadata)])}

InitFair ==
    /\ config \in {ValidConfig, ConfigWith(Some("set"), None, None)}
    /\ request = PlainRequest
    /\ vendor \in {VendorWith(s, "error_object", EmptyDict, l) :
                      s \in {200, 500}, l \in SeqsUpTo(FairLines, MaxFairLines)}
    /\ CallsInit

\* The streaming call consumed to exhaustion: the consumer keeps asking for
\* the next chunk, and every await of the call ends, with a line, with the
\* end of the body, or (the client's timeout is 60 seconds) with a failure.
SpecStreamFair == InitFair /\ [][NextStream]_vars /\ WF_vars(NextStream)

\* The three calls under every key, with and without stored credentials.
InitLog ==
    /\ config \in {[ConfigWith(k, Some("set"), Some([max_tokens |-> 20]))
                       EXCEPT !.api_key = key] :
                      k \in {Some(""), Some("set")}, key \in ApiKeys}
    /\ request \in {PlainRequest,
                    [PlainRequest EXCEPT !.model = Some("gemini-2.5-flash")]}
    /\ vendor \in {VendorWith(s, b, ReplyWithText(<<"a">>, EmptyDict), l) :
                      s \in {200, 401, 500}, b \in {"error_object", "not_json"},
                      l \in SeqsUpTo({ObjectLine(ContentOf(<<"a">>), Finish,
                                                 EmptyDict),
                                      [kind |-> "json", value |-> JArray(1)]},
                                     MaxEquivLines)}
    /\ CallsInit

SpecLog == InitLog /\ [][Next]_vars

\* The longest listing, in models.
MaxListed == 2

\* The models a vendor may list: a generative one, an embedding one, one
\* whose name is outside "models/", one whose name holds "models/" again
\* after its prefix, one without methods and one without a name.
ListedModels ==
    {[name |-> <<"models/", "gemini-1.5-pro">>,
      supportedGenerationMethods |-> {"generateContent", "countTokens"}],
     [name |-> <<"models/", "embedding-001">>,
      supportedGenerationMethods |-> {"embedContent"}],
     [name |-> <<"tunedModels/x">>,
      supportedGenerationMethods |-> {"generateContent"}],
     [name |-> <<"models/", "lab-", "models/", "x">>,
      supportedGenerationMethods |-> {"generateContent"}],
     [name |-> <<"models/", "aqa">>],
     [supportedGenerationMethods |-> {"generateContent"}]}

\* get_available_models against every listing and status.
InitModels ==
    /\ config \in {ConfigWith(k, Some("set"), Some([max_tokens |-> 20])) :
                      k \in {Some(""), Some("set")}}
    /\ request = PlainRequest
    /\ vendor \in {[VendorWith(s, "error_object", ReplyWithText(<<"a">>, EmptyDict),
                               <<>>) EXCEPT !.listing = l] :
                      s \in {200, 500}, l \in SeqsUpTo(ListedModels, MaxListed)}
    /\ CallsInit

NextModels == ModelsStart \/ ModelsResponse \/ ModelsFault

SpecModels == InitModels /\ [][NextModels]_vars

-----------------------------------------------------------------------------
(* What the claims speak of *)

\* The numbers of the chunks of a stream that are terminal.
FinalChunks(chunks) == {i \in 1..Len(chunks) : chunks[i].is_final}

\* The contents of the non-terminal chunks, in emission order.
ContentsEmitted(chunks) ==
    LET content_chunks == SelectSeq(chunks, LAMBDA c : ~c.is_final)
    IN  [i \in 1..Len(content_chunks) |-> content_chunks[i].content]

\* The shared error kind the error table gives a status other than 200.
SharedKind(status) ==
    CASE status \in {401, 403} -> "LLMConfigurationError"
      [] status = 429          -> "LLMQuotaExceededError"
      [] OTHER                 -> "LLMProviderError"

\* The stream received HTTP 200 and its body was delivered to the end of
\* the iteration without a transport failure.
StreamEnded == stream.pc = "done"

\* The vendor lines the stream has read.
LinesRead == SubSeq(vendor.lines, 1, stream.pos)

\* The vendor lines the stream has not read.
LinesUnread == SubSeq(vendor.lines, stream.pos + 1, Len(vendor.lines))

\* json.loads rejects the line, or accepts it as something other than an object.
Undecodable(line) ==
    \/ line.kind = "invalid_json"
    \/ line.kind = "json" /\ line.value.type # "object"

\* The line decodes to an object whose first candidate has a finishReason.
HasFinishReason(line) ==
    /\ line.kind = "json"
    /\ line.value.type = "object"
    /\ "candidates" \in DOMAIN line.value.v
    /\ Len(line.value.v["candidates"]) > 0
    /\ "finishReason" \in DOMAIN line.value.v["candidates"][1]

\* The line's usage metadata is there and is no object.
HasBadUsage(line) ==
    /\ line.kind = "json"
    /\ line.value.type = "object"
    /\ "usageMetadata" \in DOMAIN line.value.v
    /\ line.value.v["usageMetadata"].type # "object"

\* Processing the line raises: it is undecodable, or its finish step meets
\* usage metadata it cannot read.
ProcessingFails(line) ==
    Undecodable(line) \/ (HasFinishReason(line) /\ HasBadUsage(line))

\* The chunks the line numbered i produced.
ChunksOfLine(i) == {j \in 1..Len(stream.chunks) : stream.chunk_lines[j] = i}

\* The non-empty texts of the given lines, in order.
TextsOf(lines) ==
    LET texts == [i \in 1..Len(lines) |-> DeltaOf(lines[i])]
    IN  SelectSeq(texts, LAMBDA t : t # <<>>)

-----------------------------------------------------------------------------
(* C1 *)

\* C1 (as claimed): a stream that received HTTP 200 and whose body ended has
\* emitted exactly one chunk with is_final = true, and it is the last chunk.
C1_ExactlyOneFinalChunkAndLast ==
    StreamEnded =>
        /\ Cardinality(FinalChunks(stream.chunks)) = 1
        /\ stream.chunks[Len(stream.chunks)].is_final

-----------------------------------------------------------------------------
(* C2 *)

\* C2: a unary call that received a status other than 200 has raised, and the
\* kind of the error is the one the status alone decides: 401 and 403 give
\* LLMConfigurationError, 429 gives LLMQuotaExceededError, every other status
\* gives LLMProviderError carrying the provider name and the status code; no
\* ChatResponse is returned.
C2_UnaryErrorKindByStatus ==
    (send.http_status # None /\ send.http_status # Some(200)) =>
        /\ send.pc = "raised"
        /\ send.result.type = "raise"
        /\ send.result.error.kind = SharedKind(send.http_status[1])
        /\ send.result.error.kind = "LLMProviderError" =>
              /\ send.result.error.provider = Some("Google")
              /\ send.result.error.status_code = send.http_status

\* C2 witness: the unary call has raised LLMQuotaExceededError on a 429.
C2_Witness ==
    /\ send.pc = "raised"
    /\ send.http_status = Some(429)
    /\ send.result.error.kind = "LLMQuotaExceededError"

-----------------------------------------------------------------------------
(* C3 *)

\* C3 (as claimed): a stream whose response status is not 200 has raised the
\* shared error kind of that status, before any chunk.
C3_StreamErrorKindByStatus ==
    (stream.http_status # None /\ stream.http_status # Some(200)) =>
        /\ stream.pc = "raised"
        /\ stream.result.type = "raise"
        /\ stream.result.error.kind = SharedKind(stream.http_status[1])
        /\ stream.chunks = <<>>

-----------------------------------------------------------------------------
(* C4 *)

\* Both deliveries of the vendor's reply are over: the unary call returned
\* and the stream ended.
BothDelivered == send.pc = "returned" /\ StreamEnded

\* C4 (as claimed): the contents of the non-terminal chunks, concatenated in
\* emission order, are the content of the unary ChatResponse.
C4_StreamTextIsUnaryContent ==
    BothDelivered =>
        Concat(ContentsEmitted(stream.chunks)) = send.result.value.content

\* C4 (amended): the concatenation is the text of the lines the stream read,
\* which end with the line that produced the terminal chunk; it is the unary
\* content when no line after that one carries text.
C4_StreamTextIsUnaryContentUpToFinish ==
    BothDelivered =>
        /\ Concat(ContentsEmitted(stream.chunks)) = TransmittedText(LinesRead)
        /\ TransmittedText(LinesUnread) = <<>> =>
              Concat(ContentsEmitted(stream.chunks)) = send.result.value.content

\* C4 witness: both are over, text went over more than one line, and the two
\* texts agree.
C4_Witness ==
    /\ BothDelivered
    /\ Len(ContentsEmitted(stream.chunks)) = 2
    /\ Concat(ContentsEmitted(stream.chunks)) = send.result.value.content

-----------------------------------------------------------------------------
(* C5 *)

\* C5 (as claimed): no line that is not valid JSON or whose processing fails
\* has produced a chunk or stopped the stream, and the content chunks are the
\* texts of the other lines, in the order of the lines.
C5_FailingLinesYieldNothing ==
    StreamEnded =>
        /\ \A i \in 1..stream.pos :
              ProcessingFails(vendor.lines[i]) =>
                  /\ ChunksOfLine(i) = {}
                  /\ i < stream.pos \/ stream.pos = Len(vendor.lines)
        /\ ContentsEmitted(stream.chunks)
              = TextsOf(SelectSeq(LinesRead, LAMBDA l : ~ProcessingFails(l)))

\* C5 (amended): no line that is not valid JSON has produced a chunk; no line
\* whose processing fails has stopped the stream or produced a terminal
\* chunk, but one that fails in its finish step, after its text was taken,
\* has had that text emitted; the content chunks are the texts of the
\* decodable lines read, one chunk a line, in the order of the lines, and the
\* stream stops before the end of the body only at the terminal chunk.
C5_FailingLinesNeverAbort ==
    StreamEnded =>
        /\ \A i \in 1..stream.pos :
              /\ Undecodable(vendor.lines[i]) => ChunksOfLine(i) = {}
              /\ ProcessingFails(vendor.lines[i]) =>
                    /\ \A j \in ChunksOfLine(i) : ~stream.chunks[j].is_final
                    /\ i < stream.pos \/ stream.pos = Len(vendor.lines)
        /\ ContentsEmitted(stream.chunks)
              = TextsOf(SelectSeq(LinesRead, LAMBDA l : ~Undecodable(l)))
        /\ \A j \in 1..Len(stream.chunks) - 1 :
              stream.chunk_lines[j] <= stream.chunk_lines[j + 1]
        /\ stream.pos < Len(vendor.lines) =>
              /\ stream.chunks # <<>>
              /\ stream.chunks[Len(stream.chunks)].is_final

\* C5 witness: a line that is not valid JSON lay between two lines with text,
\* and both texts were emitted, in order.
C5_Witness ==
    /\ StreamEnded
    /\ Len(vendor.lines) = 3
    /\ vendor.lines[2].kind = "invalid_json"
    /\ ContentsEmitted(stream.chunks) = <<<<"a">>, <<"b", "c">>>>

-----------------------------------------------------------------------------
(* C6 *)

\* The contents list is the message list translated entry by entry.
ContentsFollowMessages(contents, messages) ==
    /\ Len(contents) = Len(messages)
    /\ \A i \in 1..Len(messages) :
          /\ contents[i]["parts"] = <<[text |-> messages[i].content]>>
          /\ contents[i]["role"] = IF messages[i].role = "assistant" THEN "model"
                                                                     ELSE "user"

\* C6: in the payload either call has built, unless extra_params replaces
\* contents, the contents list has the length and order of the messages, its
\* i-th entry carries the i-th message's content as its single text part, and
\* its role is "model" for an assistant message and "user" for any other.
C6_ContentsFollowMessages ==
    "contents" \notin DOMAIN request.extra_params =>
        /\ send.pc = "awaiting" =>
              ContentsFollowMessages(send.payload["contents"], request.messages)
        /\ stream.pc = "opening" =>
              ContentsFollowMessages(stream.payload["contents"], request.messages)

\* C6 witness: [system, user, assistant] was translated to user, user, model.
C6_Witness ==
    /\ send.pc = "awaiting"
    /\ "contents" \notin DOMAIN request.extra_params
    /\ [i \in 1..Len(request.messages) |-> request.messages[i].role]
          = <<"system", "user", "assistant">>
    /\ [i \in 1..Len(send.payload["contents"]) |-> send.payload["contents"][i]["role"]]
          = <<"user", "user", "model">>

-----------------------------------------------------------------------------
(* C7 *)

\* The configuration's model_parameters has the key.
ConfigHas(key) ==
    config.model_parameters # None /\ key \in DOMAIN config.model_parameters[1]

\* One generation parameter of a generationConfig, as the precedence rule
\* gives it: the request's value, else the configuration's, else no field.
ParameterFollowsPrecedence(generation_config, field, requested, key) ==
    /\ requested # None =>
          field \in DOMAIN generation_config /\ generation_config[field] = requested[1]
    /\ (requested = None /\ ConfigHas(key)) =>
          /\ field \in DOMAIN generation_config
          /\ generation_config[field] = config.model_parameters[1][key]
    /\ (requested = None /\ ~ConfigHas(key)) => field \notin DOMAIN generation_config

GenerationConfigFollowsPrecedence(payload) ==
    LET generation_config == Get(payload, "generationConfig", EmptyDict)
    IN  /\ ParameterFollowsPrecedence(generation_config, "temperature",
                                      request.temperature, "temperature")
        /\ ParameterFollowsPrecedence(generation_config, "maxOutputTokens",
                                      request.max_tokens, "max_tokens")
        /\ "generationConfig" \in DOMAIN payload => DOMAIN generation_config # {}

\* C7: in the payload either call has built, unless extra_params replaces
\* generationConfig, temperature and maxOutputTokens each carry the request's
\* value when it is set (0 included), else the configuration's, else are
\* absent, and generationConfig is absent when both are.
C7_GenerationConfigPrecedence ==
    "generationConfig" \notin DOMAIN request.extra_params =>
        /\ send.pc = "awaiting" => GenerationConfigFollowsPrecedence(send.payload)
        /\ stream.pc = "opening" => GenerationConfigFollowsPrecedence(stream.payload)

\* C7 witness: the request set temperature 0 over a configured default, and
\* the payload carries 0.
C7_Witness ==
    /\ send.pc = "awaiting"
    /\ "generationConfig" \notin DOMAIN request.extra_params
    /\ request.temperature = Some(0)
    /\ ConfigHas("temperature")
    /\ send.payload["generationConfig"]["temperature"] = 0

-----------------------------------------------------------------------------
(* C8 *)

\* The payload is the derived payload with extra_params merged over it, key
\* by key.
IsShallowMerge(payload, derived, extra_params) ==
    /\ DOMAIN payload = DOMAIN derived \cup DOMAIN extra_params
    /\ \A k \in DOMAIN extra_params : payload[k] = extra_params[k]
    /\ \A k \in DOMAIN derived \ DOMAIN extra_params : payload[k] = derived[k]
    /\ DOMAIN extra_params = {} => payload = derived

\* C8: the payload either call has built has every top-level key of
\* extra_params with extra_params' value (a derived contents or
\* generationConfig replaced whole), every other derived key with its derived
\* value, and is the derived payload when extra_params is empty.
C8_ExtraParamsMergedLast ==
    /\ send.pc = "awaiting" =>
          IsShallowMerge(send.payload, DerivedPayload(request, config),
                         request.extra_params)
    /\ stream.pc = "opening" =>
          IsShallowMerge(stream.payload, DerivedPayload(request, config),
                         request.extra_params)

\* C8 witness: extra_params replaced a derived generationConfig whole.
C8_Witness ==
    /\ stream.pc = "opening"
    /\ "generationConfig" \in DOMAIN DerivedPayload(request, config)
    /\ "generationConfig" \in DOMAIN request.extra_params
    /\ stream.payload["generationConfig"] = [topK |-> 5]

-----------------------------------------------------------------------------
(* C9 *)

\* The configuration lacks its API key or its endpoint.
LacksCredentials ==
    ~TruthyOpt(config.api_key_encrypted) \/ ~TruthyOpt(config.api_endpoint)

RaisedKind(call, kind) ==
    /\ call.pc = "raised"
    /\ call.result.type = "raise"
    /\ call.result.error.kind = kind

\* C9 (as claimed): with a configuration that lacks its API key or its
\* endpoint, each of the three calls, once started, has failed with
\* LLMConfigurationError.
C9_MissingCredentialsRaiseConfigurationError ==
    LacksCredentials =>
        /\ send.pc # "init" => RaisedKind(send, "LLMConfigurationError")
        /\ stream.pc # "init" => RaisedKind(stream, "LLMConfigurationError")
        /\ models.pc # "init" => RaisedKind(models, "LLMConfigurationError")

-----------------------------------------------------------------------------
(* C10 *)

\* The call met a timeout and raised LLMProviderError flagged timeout.
TimeoutSurfaced(call) ==
    /\ RaisedKind(call, "LLMProviderError")
    /\ "timeout" \in DOMAIN call.result.error.error_details
    /\ call.result.error.error_details["timeout"] = TRUE

\* C10: a timeout of the HTTP call of any of the three calls, whenever it
\* strikes, has surfaced as LLMProviderError with error_details timeout =
\* true: the call has not returned, and the stream has neither ended
\* normally nor emitted a terminal chunk.
C10_TimeoutSurfaces ==
    /\ send.fault = "timeout" => TimeoutSurfaced(send)
    /\ models.fault = "timeout" => TimeoutSurfaced(models)
    /\ stream.fault = "timeout" =>
          TimeoutSurfaced(stream) /\ FinalChunks(stream.chunks) = {}

\* C10 witness: a timeout struck a stream that had emitted a chunk, and it
\* surfaced.
C10_Witness ==
    /\ stream.fault = "timeout"
    /\ Len(stream.chunks) > 0
    /\ TimeoutSurfaced(stream)

-----------------------------------------------------------------------------
(* C11 *)

\* The usage mapping with every count zero.
ZeroUsage == [input_tokens |-> 0, output_tokens |-> 0, total_tokens |-> 0]

\* The 200 body has no usageMetadata at all.
LacksUsageMetadata(data) == "usageMetadata" \notin DOMAIN data

\* C11 (as claimed): against an HTTP 200 response without usage metadata,
\* send_chat_request does not raise, and the ChatResponse it returned has
\* the usage {input_tokens: 0, output_tokens: 0, total_tokens: 0} and the
\* cost 0.
C11_MissingUsageIsZeroUsage ==
    (send.http_status = Some(200) /\ LacksUsageMetadata(vendor.reply)) =>
        /\ send.pc = "returned"
        /\ send.result.value.usage = ZeroUsage
        /\ send.result.value.cost = Some(0)

-----------------------------------------------------------------------------
(* C12 *)

\* The text the vendor put first in a unary 200 body.
UnaryTextOf(reply) ==
    IF reply \in RepliesWithoutText THEN <<>>
    ELSE CHOOSE t \in Deltas : reply \in RepliesOpeningWith(t)

\* The value is a string: a finite sequence of characters.
IsString(x) == DOMAIN x = 1..Len(x) /\ \A i \in DOMAIN x : x[i] \in STRING

-----------------------------------------------------------------------------
(* C13 *)

\* The line decodes to an object that carries usage metadata.
CarriesUsage(line) ==
    /\ line.kind = "json"
    /\ line.value.type = "object"
    /\ "usageMetadata" \in DOMAIN line.value.v

\* The counts the vendor reported on the line, as a usage mapping.
CountsReported(line) ==
    LET reported == line.value.v["usageMetadata"].v
    IN  [input_tokens  |-> reported.promptTokenCount,
         output_tokens |-> reported.candidatesTokenCount,
         total_tokens  |-> reported.totalTokenCount]

\* The characters of the content the stream has emitted.
EmittedChars == Len(Concat(ContentsEmitted(stream.chunks)))

\* The characters of the texts the payload's contents carry: those of the
\* request's messages unless extra_params brought contents of its own.
PayloadChars ==
    IF "contents" \in DOMAIN request.extra_params
    THEN Len(request.extra_params["contents"][1].parts[1].text)
    ELSE TotalChars(request.messages)

\* C13 (as claimed): the usage of a terminal chunk is the vendor's counts
\* when the finish line carries usage metadata; otherwise input_tokens is
\* the characters of the request's message texts div 4, which is the input
\* estimate of estimate_cost, and output_tokens is the characters of the
\* emitted content div 4.
C13_TerminalUsageReportedOrDivFour ==
    \A i \in FinalChunks(stream.chunks) :
        LET line == vendor.lines[stream.chunk_lines[i]]
            usage == stream.chunks[i].usage
        IN  IF CarriesUsage(line)
            THEN usage = CountsReported(line)
            ELSE /\ usage.input_tokens = TotalChars(request.messages) \div 4
                 /\ usage.input_tokens = EstimatedInputTokens(request)
                 /\ usage.output_tokens = EmittedChars \div 4

\* C13 (amended): the usage of a terminal chunk is the vendor's counts when
\* the finish line carries usage metadata; otherwise input_tokens is the
\* characters of the texts of the payload's contents div 4, output_tokens
\* the characters of the emitted content div 4, each raised to 1 when it
\* would be 0, and total_tokens their sum; the input estimate is that of
\* estimate_cost when the contents are the request's messages and these
\* have 4 characters or more.
C13_TerminalUsageReportedOrEstimated ==
    \A i \in FinalChunks(stream.chunks) :
        LET line == vendor.lines[stream.chunk_lines[i]]
            usage == stream.chunks[i].usage
        IN  IF CarriesUsage(line)
            THEN usage = CountsReported(line)
            ELSE /\ usage.input_tokens =
                        (IF PayloadChars < 4 THEN 1 ELSE PayloadChars \div 4)
                 /\ usage.output_tokens =
                        (IF EmittedChars < 4 THEN 1 ELSE EmittedChars \div 4)
                 /\ usage.total_tokens = usage.input_tokens + usage.output_tokens
                 /\ ("contents" \notin DOMAIN request.extra_params
                        /\ TotalChars(request.messages) >= 4) =>
                       usage.input_tokens = EstimatedInputTokens(request)

\* C13 witness: a finish line without usage metadata ended a stream of more
\* than 8 emitted characters for a request of more than 8 characters, and
\* both estimates are 2 or more.
C13_Witness ==
    /\ stream.pc = "done"
    /\ \E i \in FinalChunks(stream.chunks) :
          /\ ~CarriesUsage(vendor.lines[stream.chunk_lines[i]])
          /\ EmittedChars > 8
          /\ stream.chunks[i].usage.output_tokens >= 2
          /\ stream.chunks[i].usage.input_tokens >= 2
          /\ stream.chunks[i].usage.input_tokens = EstimatedInputTokens(request)

-----------------------------------------------------------------------------
(* C14 *)

\* The call has ended: it returned, raised, ended its stream or was closed.
Ended(call) == call.pc \in {"returned", "raised", "done", "closed"}

\* C14: a call of send_chat_request, get_available_models or
\* stream_chat_request that has ended (by return, by the end of the stream,
\* by a mapped vendor error, a timeout, a network error or an unexpected
\* exception, or by the consumer closing or abandoning the stream) holds no
\* open HTTP client and no open streaming response: what it opened is
\* closed.
C14_ClientReleasedOnEveryExit ==
    /\ Ended(send) =>
          send.client = (IF send.requests = <<>> THEN "none" ELSE "closed")
    /\ Ended(models) =>
          models.client = (IF models.requests = <<>> THEN "none" ELSE "closed")
    /\ Ended(stream) =>
          /\ stream.client = (IF stream.requests = <<>> THEN "none" ELSE "closed")
          /\ stream.response # "open"
          /\ stream.http_status # None => stream.response = "closed"

\* C14 witness: the consumer closed a stream that had emitted a chunk, the
\* unary call raised an unexpected exception and the listing timed out; the
\* clients of the three and the streaming response are closed.
C14_Witness ==
    /\ stream.pc = "closed"
    /\ Len(stream.chunks) > 0
    /\ stream.client = "closed"
    /\ stream.response = "closed"
    /\ RaisedKind(send, "AttributeError")
    /\ send.client = "closed"
    /\ models.fault = "timeout"
    /\ models.client = "closed"

-----------------------------------------------------------------------------
(* C15 *)

\* The model a call for the request uses when it runs alone.
ModelAlone(req) ==
    IF req.model # None /\ req.model[1] # "" THEN req.model[1]
    ELSE config.default_model

\* The outcomes of send_chat_request for the request when it runs alone.
SendAlone(req) ==
    IF ValidateConfiguration(config) # NoResult
    THEN {ValidateConfiguration(config)}
    ELSE {IF vendor.status = 200
          THEN ProcessSuccessResponse(vendor.reply, t, ModelAlone(req), config)
          ELSE Raise(HandleErrorResponse([status_code |-> vendor.status,
                                          body |-> vendor.error_body,
                                          read |-> TRUE])) : t \in 0..MaxElapsed}
         \cup {Raise(TransportError(f, EmptyDict)) : f \in Faults}

\* The chunks stream_chat_request yields for the lines when it runs alone
\* and measures the time t at its finish line.
RECURSIVE ChunksAlone(_, _, _)
ChunksAlone(lines, accumulated, t) ==
    IF lines = <<>> THEN <<>>
    ELSE LET step == ProcessLine(Head(lines), accumulated,
                                 StreamPayload(request, config),
                                 ModelAlone(request), config, t)
         IN  step.yielded \o (IF step.break THEN <<>>
                              ELSE ChunksAlone(Tail(lines), step.accumulated, t))

\* Each call has the payload, the client and the result it has alone.
CallsAreAlone ==
    /\ send.requests # <<>> =>
          /\ send.payload = SendPayload(request, config)
          /\ send.model = ModelAlone(request)
    /\ Ended(send) => send.result \in SendAlone(request)
    /\ probe.requests # <<>> =>
          /\ probe.payload = SendPayload(TestRequest, config)
          /\ probe.model = ModelAlone(TestRequest)
    /\ Ended(probe) =>
          probe.result \in {ConnectionResult(o, t) :
                               o \in SendAlone(TestRequest), t \in 0..MaxElapsed}
    /\ stream.requests # <<>> =>
          /\ stream.payload = StreamPayload(request, config)
          /\ \E t \in 0..MaxElapsed :
                stream.chunks = ChunksAlone(LinesRead, <<>>, t)
          /\ stream.accumulated_content = Concat(ContentsEmitted(stream.chunks))

\* A step of one call leaves the other calls and the configuration as they
\* are.
StepIsOfOneCall ==
    /\ config' = config
    /\ send' # send => stream' = stream /\ probe' = probe
    /\ stream' # stream => send' = send /\ probe' = probe
    /\ probe' # probe => send' = send /\ stream' = stream

\* C15: a unary call, a streaming call and a second unary call with another
\* request, interleaved in every way at their awaits on one provider, do
\* not interfere: each has its own payload, model, accumulated content and
\* result, the ones it has when it runs alone, and no step of a call changes
\* another call or the provider configuration.
C15_ConcurrentCallsDoNotInterfere == []CallsAreAlone /\ [][StepIsOfOneCall]_vars

\* C15 witness: the three calls were in flight together and all ended, the
\* stream after a chunk, with the models of their own requests.
C15_Witness ==
    /\ Ended(send) /\ Ended(probe) /\ Ended(stream)
    /\ send.pc = "returned"
    /\ probe.result.value.success
    /\ Len(stream.chunks) > 1
    /\ send.result.value.model = "gemini-2.5-flash"
    /\ probe.result.value.model = "gemini-1.5-pro"
    /\ stream.chunks[1].model = "gemini-2.5-flash"

-----------------------------------------------------------------------------
(* C16 *)

\* C16: a send_chat_request whose configuration passes validation sends one
\* HTTP request, at its start, and no other whatever the outcome (any
\* status, a timeout, a network error); one whose configuration fails
\* validation has raised without sending any.
C16_OneRequestPerSend ==
    /\ LacksCredentials =>
          /\ send.requests = <<>>
          /\ send.pc \in {"init", "raised"}
    /\ (~LacksCredentials /\ send.pc # "init") =>
          /\ Len(send.requests) = 1
          /\ send.requests[1].method = "POST"
          /\ send.requests[1].endpoint.action = "generateContent"
    /\ send.pc = "init" => send.requests = <<>>

\* C16 witness: the vendor answered 429 and the call raised, having sent
\* its one request.
C16_Witness ==
    /\ send.pc = "raised"
    /\ send.http_status = Some(429)
    /\ Len(send.requests) = 1

-----------------------------------------------------------------------------
(* C17 *)

\* max_tokens as the claim has it: the request's value, else the
\* configuration's, else 1000.
ClaimedMaxTokens ==
    IF request.max_tokens # None THEN request.max_tokens[1]
    ELSE IF config.model_parameters # None
            /\ "max_tokens" \in DOMAIN config.model_parameters[1]
    THEN config.model_parameters[1]["max_tokens"]
    ELSE 1000

\* The tokens the claim has estimate_cost price.
ClaimedInputTokens == TotalChars(request.messages) \div 4

ClaimedOutputTokens ==
    IF ClaimedMaxTokens <= ClaimedInputTokens \div 2 THEN ClaimedMaxTokens
    ELSE ClaimedInputTokens \div 2

\* C17 (as claimed): estimate_cost has returned None when cost tracking is
\* off; otherwise it has returned a value that is not negative, the price
\* of input = total message characters div 4 and output = min(max_tokens,
\* input div 2) tokens, neither negative, with max_tokens the request's
\* value, else the configuration's, else 1000.
C17_EstimateIsNoneOrNonNegative ==
    estimate.pc # "init" =>
        /\ estimate.pc = "returned"
        /\ IF ~config.has_cost_tracking
           THEN estimate.result.value = None
           ELSE /\ estimate.result.value # None
                /\ estimate.result.value[1] >= 0
                /\ estimate.input_tokens = Some(ClaimedInputTokens)
                /\ estimate.output_tokens = Some(ClaimedOutputTokens)
                /\ ClaimedInputTokens >= 0 /\ ClaimedOutputTokens >= 0

-----------------------------------------------------------------------------
(* C18 *)

\* C18 (as claimed): estimate_cost has never raised: whatever the request
\* and the configuration, once called it has returned None or a number.
C18_EstimateNeverRaises ==
    estimate.pc # "init" =>
        /\ estimate.pc = "returned"
        /\ estimate.result.type = "return"
        /\ \/ estimate.result.value = None
           \/ estimate.result.value[1] \in Int

-----------------------------------------------------------------------------
(* C19 *)

\* The probe succeeded: its configuration is valid, no transport failure
\* struck, and the vendor answered 200 with a body the provider can read.
ProbeSucceeded ==
    /\ ~LacksCredentials
    /\ probe.fault = "none"
    /\ probe.http_status = Some(200)
    /\ "usageMetadata" \in DOMAIN vendor.reply =>
          vendor.reply["usageMetadata"].type = "object"

\* The kind of the exception that ended a probe that did not succeed.
ProbeFailureKind ==
    IF LacksCredentials \/ probe.fault # "none" THEN "LLMProviderError"
    ELSE IF probe.http_status = Some(200) THEN "AttributeError"
    ELSE SharedKind(probe.http_status[1])

\* C19: test_connection has not raised; it has sent at most one request,
\* with max_tokens 10; once it has ended it has returned a mapping: after a
\* successful probe success = true with response_time_ms, model and cost,
\* and after any failure (invalid configuration, a vendor error, a timeout,
\* a network error, any other exception) success = false with a message
\* and the kind of the exception as error_type.
C19_TestConnectionNeverRaises ==
    /\ probe.pc \in {"init", "awaiting", "returned"}
    /\ Len(probe.requests) <= 1
    /\ probe.requests # <<>> =>
          probe.payload["generationConfig"]["maxOutputTokens"] = 10
    /\ probe.pc = "returned" =>
          LET result == probe.result.value
          IN  /\ probe.result.type = "return"
              /\ Len(probe.requests) = (IF LacksCredentials THEN 0 ELSE 1)
              /\ IF ProbeSucceeded
                 THEN /\ result.success
                      /\ DOMAIN result = {"success", "message", "response_time_ms",
                                          "model", "cost"}
                      /\ result.response_time_ms \in 0..MaxElapsed
                      /\ result.model = config.default_model
                      /\ result.cost # None /\ result.cost[1] >= 0
                 ELSE /\ ~result.success
                      /\ DOMAIN result = {"success", "message", "error_type"}
                      /\ result.error_type = ProbeFailureKind

\* C19 witness: the probe met an exception that is none of the provider's
\* (usage metadata it cannot read) and test_connection returned the failure.
C19_Witness ==
    /\ probe.pc = "returned"
    /\ Len(probe.requests) = 1
    /\ probe.http_status = Some(200)
    /\ ~probe.result.value.success
    /\ probe.result.value.error_type = "AttributeError"

-----------------------------------------------------------------------------
(* C20 *)

\* C20: no step of send_chat_request or stream_chat_request, on any path,
\* changes the ChatRequest (its messages, model, temperature, max_tokens
\* and extra_params are after the step what they were before it) or the
\* provider configuration.
C20_RequestAndConfigUnchanged ==
    [][/\ request'.messages = request.messages
       /\ request'.model = request.model
       /\ request'.temperature = request.temperature
       /\ request'.max_tokens = request.max_tokens
       /\ request'.extra_params = request.extra_params
       /\ config' = config]_vars

\* C20 witness: both calls ran to their end on a request whose
\* extra_params replaces the derived contents, and extra_params still
\* holds that one entry.
C20_Witness ==
    /\ send.pc = "returned"
    /\ stream.pc = "done"
    /\ stream.payload["contents"] = OverridingContents
    /\ request.extra_params = [contents |-> OverridingContents]

-----------------------------------------------------------------------------
(* C21 *)

\* C21: the model of a call is the request's model when it is set (and not
\* empty) and the configuration's default_model otherwise; it is the model
\* in the URL of the call's request, the model of the ChatResponse, and the
\* model of every chunk of the stream.
C21_OneModelPerCall ==
    /\ \A i \in 1..Len(send.requests) :
          send.requests[i].endpoint.model = Some(ModelAlone(request))
    /\ send.pc = "returned" => send.result.value.model = ModelAlone(request)
    /\ \A i \in 1..Len(stream.requests) :
          stream.requests[i].endpoint.model = Some(ModelAlone(request))
    /\ \A i \in 1..Len(stream.chunks) :
          stream.chunks[i].model = ModelAlone(request)

\* C21 witness: a request that names its model was answered both ways, and
\* the URL, the ChatResponse and both chunks of the stream carry that model.
C21_Witness ==
    /\ request.model = Some("gemini-2.5-flash")
    /\ config.default_model # "gemini-2.5-flash"
    /\ send.pc = "returned"
    /\ send.requests[1].endpoint.model = Some("gemini-2.5-flash")
    /\ send.result.value.model = "gemini-2.5-flash"
    /\ stream.pc = "done"
    /\ Len(stream.chunks) = 2
    /\ stream.chunks[2].is_final
    /\ stream.chunks[1].model = "gemini-2.5-flash"
    /\ stream.chunks[2].model = "gemini-2.5-flash"

-----------------------------------------------------------------------------
(* C22 *)

\* The chunk is a non-terminal chunk: a non-empty delta with model and
\* provider and nothing else.
IsContentShape(chunk) ==
    /\ DOMAIN chunk = {"content", "is_final", "model", "provider"}
    /\ chunk.is_final = FALSE
    /\ IsString(chunk.content) /\ Len(chunk.content) > 0
    /\ chunk.provider = "Google"

\* The chunk is a terminal chunk: empty content with model and provider,
\* and usage, cost and response_time_ms.
IsTerminalShape(chunk) ==
    /\ DOMAIN chunk = {"content", "is_final", "model", "provider", "usage",
                       "cost", "response_time_ms"}
    /\ chunk.is_final = TRUE
    /\ chunk.content = <<>>
    /\ chunk.provider = "Google"
    /\ DOMAIN chunk.usage = {"input_tokens", "output_tokens", "total_tokens"}
    /\ chunk.response_time_ms \in 0..MaxElapsed

\* C22: every chunk stream_chat_request has emitted has one of two shapes:
\* not terminal, with a non-empty content, model and provider and without
\* usage, cost and response_time_ms; or terminal, with empty content, model
\* and provider, and with usage, cost and response_time_ms.
C22_ChunksHaveTwoShapes ==
    \A i \in 1..Len(stream.chunks) :
        /\ stream.chunks[i].model = stream.model
        /\ IF stream.chunks[i].is_final THEN IsTerminalShape(stream.chunks[i])
                                        ELSE IsContentShape(stream.chunks[i])

\* C22 witness: a stream emitted a content chunk and then its terminal
\* chunk, on a body that also had a line with an empty text.
C22_Witness ==
    /\ stream.pc = "done"
    /\ Len(stream.chunks) = 2
    /\ IsContentShape(stream.chunks[1])
    /\ IsTerminalShape(stream.chunks[2])
    /\ \E i \in 1..stream.pos :
          vendor.lines[i] = ObjectLine(ContentOf(<<>>), EmptyDict, EmptyDict)

-----------------------------------------------------------------------------
(* C23 *)

\* The stream has ended: its sequence is exhausted or it raised.
StreamOver == stream.pc \in {"done", "raised"}

\* The stream has emitted at most one content chunk per line read and at
\* most one terminal chunk.
ChunksAreBounded ==
    /\ Len(ContentsEmitted(stream.chunks)) <= stream.pos
    /\ stream.pos <= Len(vendor.lines)
    /\ Cardinality(FinalChunks(stream.chunks)) <= 1
    /\ Len(stream.chunks) <= Len(vendor.lines) + 1

\* C23: over any finite body, a stream consumed to exhaustion eventually
\* ends (its sequence ends or it raises); it has emitted at most one content
\* chunk per vendor line plus the terminal chunk; and once it has ended no
\* step of it happens: it yields no further chunk.
C23_StreamTerminates ==
    /\ <>StreamOver
    /\ []ChunksAreBounded
    /\ [][StreamOver => stream' = stream]_vars

\* C23 witness: a stream ended after as many chunks as a body of its length
\* allows: one content chunk per line and the terminal chunk.
C23_Witness ==
    /\ stream.pc = "done"
    /\ Len(vendor.lines) = MaxFairLines
    /\ Len(stream.chunks) = Len(vendor.lines) + 1

-----------------------------------------------------------------------------
(* C24 *)

\* The call received a status other than 200 whose body is not valid JSON,
\* or is JSON that is no object.
GotUndecodableError(call) ==
    /\ call.http_status # None
    /\ call.http_status[1] # 200
    /\ vendor.error_body \in {"not_json", "array"}

\* The call raised the shared kind of its status with the message
\* "HTTP {status}: {raw text}".
FellBack(call) ==
    /\ RaisedKind(call, SharedKind(call.http_status[1]))
    /\ call.result.error.message = [form |-> "http", status |-> call.http_status[1]]

\* C24 (as claimed): a call that received a status other than 200 with a
\* body that is not valid JSON (or not of the expected shape) has raised no
\* secondary exception: it raised the error kind of the status, as for a
\* well-formed error body, with the message "HTTP {status}: {raw text}".
C24_UndecodableErrorBodyFallsBack ==
    /\ GotUndecodableError(send) => FellBack(send)
    /\ GotUndecodableError(models) => FellBack(models)
    /\ GotUndecodableError(stream) => FellBack(stream)

-----------------------------------------------------------------------------
(* C25 *)

\* The text holds the key whole, character for character.
Contains(text, key) ==
    \E i \in 1..Len(text) :
        i + Len(key) - 1 <= Len(text) /\ SubSeq(text, i, i + Len(key) - 1) = key

\* Every record the validation and the three calls have written.
LogRecords == send.log \o stream.log \o models.log

\* The record of the validation shows of the key its first 8 and last 4
\* characters around "..." when it has more than 12, "[too_short]" otherwise.
ShowsPreviewOnly(record, key) ==
    LET shown == SubSeq(record.text, 4, Len(record.text))
    IN  IF Len(key) > 12
        THEN /\ Len(shown) = 15
             /\ SubSeq(shown, 1, 8) = SubSeq(key, 1, 8)
             /\ SubSeq(shown, 9, 11) = <<".", ".", ".">>
             /\ SubSeq(shown, 12, 15) = SubSeq(key, Len(key) - 3, Len(key))
        ELSE shown = <<"[", "t", "o", "o", "_", "s", "h", "o", "r", "t", "]">>

\* The record of a URL ends with the placeholder where the key was.
ShowsKeyHidden(record) ==
    /\ Len(record.text) >= Len(ApiKeyHidden)
    /\ SubSeq(record.text, Len(record.text) - Len(ApiKeyHidden) + 1,
              Len(record.text)) = ApiKeyHidden

\* C25: no log record written by the validation, send_chat_request,
\* stream_chat_request or get_available_models contains the complete
\* decrypted API key: the validation logs it as a preview of its first 8 and
\* last 4 characters when it is longer than 12 characters and as
\* "[too_short]" otherwise, and a URL is logged with the key replaced by
\* "[API_KEY_HIDDEN]".
C25_KeyNeverLoggedWhole ==
    \A i \in 1..Len(LogRecords) :
        LET record == LogRecords[i]
        IN  /\ ~Contains(record.text, config.api_key)
            /\ record.line = 36 => ShowsPreviewOnly(record, config.api_key)
            /\ record.line \in {112, 419} => ShowsKeyHidden(record)

\* The three calls have each logged under a key of 13 characters, the
\* shortest of which a preview is shown.
C25_Witness ==
    /\ config.api_key = ApiKeyOf13
    /\ \E i \in 1..Len(send.log) : send.log[i].line = 112
    /\ \E i \in 1..Len(stream.log) : stream.log[i].line = 419
    /\ \E i \in 1..Len(models.log) : models.log[i].line = 36

-----------------------------------------------------------------------------
(* C26 *)

\* The listed model is generative and its name starts with "models/".
IsListedGenerative(model) ==
    /\ "name" \in DOMAIN model
    /\ Len(model["name"]) > 0
    /\ model["name"][1] = "models/"
    /\ "supportedGenerationMethods" \in DOMAIN model
    /\ "generateContent" \in model["supportedGenerationMethods"]

\* The names of the generative models of the listing, in its order, each
\* without its "models/" prefix.
RECURSIVE GenerativeIds(_)
GenerativeIds(listing) ==
    IF listing = <<>> THEN <<>>
    ELSE (IF IsListedGenerative(Head(listing))
          THEN <<Tail(Head(listing)["name"])>>
          ELSE <<>>) \o GenerativeIds(Tail(listing))

\* C26 (as claimed): on an HTTP 200 listing get_available_models has
\* returned, in the vendor's order, exactly the identifiers of the listed
\* models whose name starts with "models/" and whose
\* supportedGenerationMethods contains "generateContent", each with the
\* "models/" prefix removed; on a timeout or network error it has raised
\* LLMProviderError.
C26_ListsGenerativeModelsWithoutPrefix ==
    /\ models.http_status = Some(200) =>
           /\ models.pc = "returned"
           /\ models.result = Return(GenerativeIds(vendor.listing))
    /\ models.fault # "none" => RaisedKind(models, "LLMProviderError")

-----------------------------------------------------------------------------
(* C27 *)

\* C27: whatever the vendor's lines, stream_chat_request has emitted at most
\* one chunk with is_final = true; it emitted it while processing a
\* well-formed line whose first candidate carries a finishReason; and it is
\* the last thing the stream did: no chunk follows it, the line that
\* produced it is the last line processed, and the stream is over.
C27_FinalChunkEndsTheStream ==
    LET finals == FinalChunks(stream.chunks)
    IN  /\ Cardinality(finals) <= 1
        /\ \A j \in finals :
              /\ HasFinishReason(vendor.lines[stream.chunk_lines[j]])
              /\ j = Len(stream.chunks)
              /\ stream.chunk_lines[j] = stream.pos
              /\ stream.pc = "done"

\* The stream emitted its terminal chunk and ended with a line unread that
\* carries a finishReason too.
C27_Witness ==
    /\ FinalChunks(stream.chunks) # {}
    /\ stream.pc = "done"
    /\ \E i \in (stream.pos + 1)..Len(vendor.lines) :
          HasFinishReason(vendor.lines[i])

-----------------------------------------------------------------------------
(* C28 *)

\* Both calls have built their payload and sent their request.
BothStarted == send.pc = "awaiting" /\ stream.pc = "opening"

\* C28: for every request and configuration, stream_chat_request has built
\* exactly the payload send_chat_request has built for that request
\* (contents, generationConfig, extra_params merged) and selected the same
\* model; the requests the two calls sent differ in the endpoint's action
\* only, generateContent against streamGenerateContent.
C28_StreamBuildsTheSendPayload ==
    BothStarted =>
        /\ stream.payload = send.payload
        /\ stream.model = send.model
        /\ Len(send.requests) = 1 /\ Len(stream.requests) = 1
        /\ stream.requests[1].method = send.requests[1].method
        /\ stream.requests[1].endpoint.model = send.requests[1].endpoint.model
        /\ send.requests[1].endpoint.action = "generateContent"
        /\ stream.requests[1].endpoint.action = "streamGenerateContent"

\* Both calls started on a request that overrides the model, sets its own
\* temperature, leaves max_tokens to the configuration's default and
\* carries extra_params.
C28_Witness ==
    /\ BothStarted
    /\ TruthyOpt(request.model)
    /\ request.temperature # None
    /\ request.max_tokens = None
    /\ ConfigHas("max_tokens")
    /\ DOMAIN request.extra_params # {}
    /\ stream.payload["generationConfig"]["maxOutputTokens"]
          = config.model_parameters[1]["max_tokens"]

-----------------------------------------------------------------------------
(* C29 *)

\* C29: a timeout or network error that strikes a stream after it has
\* emitted k >= 0 content chunks leaves those chunks delivered, in the order
\* of the lines that carried them, with no terminal chunk after them, and
\* the stream has ended by raising LLMProviderError whose error_details has
\* streaming = true: it has not ended as a normal end of the sequence.
C29_MidStreamFaultRaises ==
    stream.fault # "none" =>
        /\ RaisedKind(stream, "LLMProviderError")
        /\ "streaming" \in DOMAIN stream.result.error.error_details
        /\ stream.result.error.error_details["streaming"] = TRUE
        /\ stream.result.type # "end"
        /\ FinalChunks(stream.chunks) = {}
        /\ ContentsEmitted(stream.chunks)
              = TextsOf(SelectSeq(LinesRead, LAMBDA l : ~Undecodable(l)))

\* A network error struck a stream that had emitted two content chunks and
\* had a line left to read.
C29_Witness ==
    /\ stream.fault = "network"
    /\ stream.pc = "raised"
    /\ Len(stream.chunks) = 2
    /\ stream.pos < Len(vendor.lines)

-----------------------------------------------------------------------------
(* C30 *)

\* What was returned is a ChatResponse, not None.
IsChatResponse(value) ==
    DOMAIN value = {"content", "model", "provider", "usage", "cost",
                    "response_time_ms", "raw_response"}

\* The 200 body can be decoded: its usage metadata, when it has any, is an
\* object.
ReplyReadable ==
    LET usage_metadata == Get(vendor.reply, "usageMetadata", JObject(EmptyDict))
    IN  ~JTruthy(usage_metadata) \/ usage_metadata.type = "object"

\* send_chat_request has ended in one of two ways: it returned a
\* ChatResponse or it raised.
ReturnedChatResponseOrRaised ==
    \/ /\ send.pc = "returned"
       /\ send.result.type = "return"
       /\ IsChatResponse(send.result.value)
    \/ /\ send.pc = "raised"
       /\ send.result.type = "raise"

\* C30 (as claimed): send_chat_request, once ended, has returned a
\* ChatResponse or has raised, never returned None, and it has returned
\* exactly when the vendor's status is 200.
C30_ReturnsExactlyOn200 ==
    send.pc \in {"returned", "raised"} =>
        /\ ReturnedChatResponseOrRaised
        /\ send.pc = "returned" <=> send.http_status = Some(200)

\* C30 (amended): send_chat_request, once ended, has returned a ChatResponse
\* or has raised, never returned None; it has returned only when the
\* vendor's status is 200, after any other status it has raised, and after
\* a 200 it has returned unless the body could not be decoded.
C30_ReturnsOnlyOn200OrRaises ==
    send.pc \in {"returned", "raised"} =>
        /\ ReturnedChatResponseOrRaised
        /\ send.pc = "returned" => send.http_status = Some(200)
        /\ (send.http_status # None /\ send.http_status # Some(200)) =>
              send.pc = "raised"
        /\ (send.http_status = Some(200) /\ ReplyReadable) => send.pc = "returned"

\* The vendor answered 500 with a body that is no JSON and the call raised.
C30_Witness ==
    /\ send.http_status = Some(500)
    /\ vendor.error_body = "not_json"
    /\ send.pc = "raised"
    /\ send.result.error.kind = "LLMProviderError"

=============================================================================
